---- MODULE Spec2Model ----
(***************************************************************************)
(* The middleware chain of the Express programs of this repository: an    *)
(* ordered list of mounted entries (app.use / app.get / app.post), walked  *)
(* for each request; a handler finalises the response, calls next(), or    *)
(* calls next(err).                                                        *)
(*                                                                         *)
(* Paths are sequences of one-character strings, so that "is a string     *)
(* prefix of" and "is a prefix at a segment boundary" are different        *)
(* relations.                                                              *)
(***************************************************************************)
EXTENDS Naturals, Integers, Sequences, FiniteSets, TLC

\* ------------------------------------------------------------------ bounds
MaxEntries == 3
MaxPathLen == 4

MaxRequests == 2

MaxCalls == 3

MaxWrites == 3

MaxTasks == 3

MaxUsers == 3

MaxAdds == 3

MaxAccounts == 2
MaxTokens == 3

\* ------------------------------------------------------ program constants
StatusOK == 200
StatusCreated == 201
StatusBadRequest == 400
StatusUnauthorized == 401
StatusForbidden == 403
StatusNotFound == 404
StatusServerError == 500

\* ------------------------------------------------------------------- paths
Slash == "/"
Letters == {"a"}
Chars == {Slash} \cup Letters

RECURSIVE SeqsUpTo(_, _)
SeqsUpTo(S, n) ==
  IF n = 0 THEN {<<>>}
  ELSE LET shorter == SeqsUpTo(S, n - 1)
       IN  shorter \cup {Append(s, c) : s \in {t \in shorter : Len(t) = n - 1}, c \in S}

\* A request path: starts with "/", has no empty segment, and no trailing "/"
\* except for the root "/" itself (req.url of part_008:9, part_006:21).
WellFormedPath(p) ==
  /\ Len(p) >= 1
  /\ p[1] = Slash
  /\ \A i \in 1..(Len(p) - 1) : ~(p[i] = Slash /\ p[i + 1] = Slash)
  /\ (Len(p) > 1 => p[Len(p)] # Slash)

Paths == {p \in SeqsUpTo(Chars, MaxPathLen) : WellFormedPath(p)}

NoPath == <<>>
PathA == <<Slash, "a">>

\* The paths of the programs of the notes, which mount under two prefixes
\* ('/api/users' and '/api/products', '/dashboard' and '/users').
ProgramLetters == {"a", "b"}
ProgramPaths ==
  {p \in SeqsUpTo({Slash} \cup ProgramLetters, MaxPathLen) : WellFormedPath(p)}

Root == <<Slash>>
PathB == <<Slash, "b">>
PathAB == <<Slash, "a", Slash, "b">>

\* A route parameter: '/:id', '/:age'.
Param == ":"
ParamPattern == <<Slash, Param>>

Methods == {"GET", "POST"}
AnyMethod == "ANY"

\* ------------------------------------------------------------------ errors
NoError == [name |-> "none", status |-> 0]
RouteNotFound == [name |-> "Route not found", status |-> StatusNotFound]
TimeoutError == [name |-> "timeout", status |-> StatusServerError]

\* error = new Error('Something went wrong!'); error.status = 500
RouteFailed == [name |-> "Something went wrong!", status |-> StatusServerError]

\* throw new Error('Something went wrong!'): no status is set on it.
Thrown == [name |-> "thrown", status |-> 0]

\* The rejection of the promise that asyncHandler wraps.
Rejected == [name |-> "rejected", status |-> 0]

\* ----------------------------------------------------------------- entries
\* What a mounted function does when it is invoked.
Handlers == {"logger", "auth", "route", "notFound", "errorHandler", "forgot"}

\* The routers of the notes: express.Router() instances mounted with app.use.
Routers == {"userRoutes", "productRoutes", "adminRouter"}

IsRouter(h) == h \in Routers

\* The other functions that the programs of the notes mount.
ProgramHandlers ==
  {"json", "authenticate", "errorRoute", "thrower", "send404",
   "errorHandler500", "asyncRoute"}

\* The number of declared parameters: (req, res, next) or (err, req, res, next).
Arity(h) == IF h \in {"errorHandler", "errorHandler500"} THEN 4 ELSE 3

\* Express recognises an error handler by its four parameters.
IsErrorHandler(h) == Arity(h) = 4

\* app.use([prefix,] fn): a middleware mount, any method, prefix match.
Use(prefix, h) ==
  [prefix |-> prefix, method |-> AnyMethod, isErrorHandler |-> IsErrorHandler(h), handler |-> h]

\* app.get(path, fn) / app.post(path, fn): a route mount, one method, exact path.
Route(method, path, h) ==
  [prefix |-> path, method |-> method, isErrorHandler |-> IsErrorHandler(h), handler |-> h]

\* app.use((req, res, next) => { console.log(..); next(); })
LoggerEntry == Use(NoPath, "logger")

\* app.use('/api', authenticate): next() with the right authorization header,
\* a 403 response without it.
AuthEntry == Use(PathA, "auth")

\* app.get('/protected', (req, res) => { res.send(..) })
RouteEntry == Route("GET", PathA, "route")

\* app.use((req, res, next) => { error.status = 404; next(error) })
NotFoundEntry == Use(NoPath, "notFound")

\* app.use((err, req, res, next) => { res.status(err.status || 500).json(..) })
ErrorHandlerEntry == Use(NoPath, "errorHandler")

\* The same error handler mounted under a prefix.
ScopedErrorHandlerEntry == Use(PathA, "errorHandler")

\* app.use((req, res, next) => { console.log(..); /* forgot to call next() */ })
ForgotEntry == Use(NoPath, "forgot")

\* The shapes of entry that can be mounted.
Entries ==
  { LoggerEntry, AuthEntry, RouteEntry, NotFoundEntry, ErrorHandlerEntry,
    ScopedErrorHandlerEntry, ForgotEntry }

\* app.use(express.json())
JsonEntry == Use(NoPath, "json")

\* app.use((req, res, next) => { .. res.status(403).send('Forbidden') }): the
\* authentication middleware of part_008, mounted for every path.
GlobalAuthEntry == Use(NoPath, "auth")

\* app.use('/api', authenticate)
AuthenticateEntry == Use(PathA, "authenticate")

\* app.get('/api/profile', ..), app.get('/api/items', ..): a route below '/api'.
ApiRouteEntry == Route("GET", PathAB, "route")

\* app.get('/', (req, res) => { res.send('Hello, World!') })
RootRouteEntry == Route("GET", Root, "route")

\* app.get('/error', (req, res, next) => { error.status = 500; next(error) })
ErrorRouteEntry == Route("GET", PathA, "errorRoute")

\* app.get('/error', (req, res) => { throw new Error(..) })
ThrowerEntry == Route("GET", PathA, "thrower")

\* app.use((req, res, next) => { res.status(404).json(..) })
Send404Entry == Use(NoPath, "send404")

\* app.use((err, req, res, next) => { res.status(500).json(..) })
ErrorHandler500Entry == Use(NoPath, "errorHandler500")

\* app.get('/async-route', asyncHandler(async (req, res) => { .. }))
AsyncRouteEntry == Route("GET", PathA, "asyncRoute")

\* app.use('/api/users', userRoutes), app.use('/api/products', productRoutes),
\* app.use('/admin', adminRouter)
UserRoutesEntry == Use(PathA, "userRoutes")
ProductRoutesEntry == Use(PathB, "productRoutes")
AdminRouterEntry == Use(PathA, "adminRouter")

\* app.get('/home', (req, res) => { res.send('Home page ') })
HomeRouteEntry == Route("GET", PathB, "route")

\* app.use((req, res) => { res.send('Page Not Found!') })
PageNotFoundEntry == Use(NoPath, "pageNotFound")

\* A route of the application for a path below the mount of userRoutes.
GhostRouteEntry == Route("POST", PathAB, "route")

\* What is mounted on each router, in mount order (router.put and
\* router.delete are left out: requests are GET or POST).
RouterEntries(h) ==
  CASE h = "userRoutes" ->
         << Use(NoPath, "logger"),
            Route("GET", Root, "route"),
            Route("GET", ParamPattern, "route"),
            Route("POST", Root, "route") >>
    [] h = "productRoutes" ->
         << Route("GET", Root, "route"),
            Route("GET", ParamPattern, "route") >>
    [] h = "adminRouter" ->
         << Use(NoPath, "logger"),
            Use(NoPath, "auth"),
            Route("GET", PathA, "route"),
            Route("GET", PathB, "route") >>

\* ---------------------------------------------------------------- matching
StartsWith(path, prefix) ==
  /\ Len(prefix) <= Len(path)
  /\ SubSeq(path, 1, Len(prefix)) = prefix

\* The prefix ends where a path segment ends.
AtSegmentBoundary(path, prefix) ==
  \/ Len(path) = Len(prefix)
  \/ path[Len(prefix) + 1] = Slash

\* app.use: "Matches /admin, /admin/users, /admin/settings, etc."
PrefixMatches(prefix, path) ==
  /\ StartsWith(path, prefix)
  /\ AtSegmentBoundary(path, prefix)

\* Mutant: a route is matched like a middleware mount, by prefix.
ExactMatchesByPrefix(routePath, path) == PrefixMatches(routePath, path)

\* '/:id' stands for one segment that is not empty.
ParamMatches(path) ==
  /\ Len(path) >= 2
  /\ path[1] = Slash
  /\ \A i \in 2..Len(path) : path[i] # Slash

\* app.get / app.post / app.all: "Matches exact path"; a route parameter
\* matches any one segment.
ExactMatches(routePath, path) ==
  IF routePath = ParamPattern THEN ParamMatches(path) ELSE path = routePath

PathMatches(e, path) ==
  IF e.method = AnyMethod
  THEN PrefixMatches(e.prefix, path)
  ELSE ExactMatches(e.prefix, path)

\* Mutant: the method of a route is not looked at.
MethodMatchesAny(e, method) == TRUE

MethodMatches(e, method) == e.method = AnyMethod \/ e.method = method

\* Mutant: a pending error does not stop normal entries from being considered.
RoleMatchesNormalAlways(e, errorState) == e.isErrorHandler => errorState # NoError

\* Mutant: an error handler is considered like any other middleware while no
\* error is pending.
RoleMatchesErrorHandlerAlways(e, errorState) == errorState # NoError => e.isErrorHandler

\* Normal entries are considered while no error is pending, error handlers
\* only while one is.
RoleMatches(e, errorState) == e.isErrorHandler = (errorState # NoError)

Matches(e, c) ==
  /\ RoleMatches(e, c.errorState)
  /\ MethodMatches(e, c.method)
  /\ PathMatches(e, c.path)

\* Mutant: among the matching entries at or after `from`, the one with the
\* longest prefix (the most specific) is taken first.
NextMatchMostSpecific(es, c, from) ==
  LET M == {j \in from..Len(es) : Matches(es[j], c)}
  IN  IF M = {} THEN Len(es) + 1
      ELSE CHOOSE j \in M :
             \A k \in M : \/ Len(es[j].prefix) > Len(es[k].prefix)
                          \/ (Len(es[j].prefix) = Len(es[k].prefix) /\ j <= k)

\* The index of the first entry at or after `from` that matches, or
\* Len(es) + 1 when there is none.
RECURSIVE NextMatch(_, _, _)
NextMatch(es, c, from) ==
  IF from > Len(es) THEN Len(es) + 1
  ELSE IF Matches(es[from], c) THEN from
  ELSE NextMatch(es, c, from + 1)

\* Mutant: the router is handed the path as the application received it.
ResidualUnstripped(path, prefix) == path

\* The path a router sees: the request path without the prefix the router
\* is mounted under, "/" when nothing is left.
Residual(path, prefix) ==
  IF Len(path) = Len(prefix) THEN Root
  ELSE SubSeq(path, Len(prefix) + 1, Len(path))

\* What a handler does once invoked: it calls next(), calls next(err), sends
\* the response, or does nothing at all.
CallNext == [do |-> "next", err |-> NoError, status |-> 0]
CallNextErr(err) == [do |-> "nextErr", err |-> err, status |-> 0]
Send(status) == [do |-> "finalize", err |-> NoError, status |-> status]
DoNothing == [do |-> "nothing", err |-> NoError, status |-> 0]

\* throw err, out of the handler.
Throw(err) == [do |-> "throw", err |-> err, status |-> 0]

\* The handler awaits a promise; what happens depends on how it settles.
Await == [do |-> "await", err |-> NoError, status |-> 0]

\* The entry is a router: the request is handed to the router's own list.
Delegate == [do |-> "delegate", err |-> NoError, status |-> 0]

\* (req, res, next) => { console.log(..); next(); }
LoggerHandler(c) == CallNext

\* Mutant: the authentication middleware lets every request through.
AuthHandlerLetsThrough(c) == CallNext

\* (req, res, next) => { if (auth === 'mysecrettoken') next();
\*                       else res.status(403).send('Forbidden'); }
AuthHandler(c) == IF c.authorized THEN CallNext ELSE Send(StatusForbidden)

\* (req, res) => { res.send('This is a protected route'); }
RouteHandler(c) == Send(StatusOK)

\* (req, res, next) => { error.status = 404; next(error); }
NotFoundHandler(c) == CallNextErr(RouteNotFound)

\* Mutant: the error handler answers 500 whatever the error says.
ErrorHandlerAlways500(c) == Send(StatusServerError)

\* (err, req, res, next) => { res.status(err.status || 500).json(..); }
ErrorHandler(c) ==
  Send(IF c.errorState.status # 0 THEN c.errorState.status ELSE StatusServerError)

\* Mutant: the walk goes on although the handler did not call next().
ForgotHandlerGoesOn(c) == CallNext

\* (req, res, next) => { console.log('Middleware'); /* forgot to call next() */ }
ForgotHandler(c) == DoNothing

\* express.json(): parses the body and calls next().
JsonHandler(c) == CallNext

\* (req, res, next) => { if (!token) return res.status(401).json(..);
\*                       if (token === 'secret-token-123') { req.user = ..; next() }
\*                       else return res.status(403).json(..) }
AuthenticateHandler(c) ==
  IF c.token = "none" THEN Send(StatusUnauthorized)
  ELSE IF c.token = "valid" THEN CallNext
  ELSE Send(StatusForbidden)

\* (req, res, next) => { error.status = 500; next(error); }
ErrorRouteHandler(c) == CallNextErr(RouteFailed)

\* (req, res) => { throw new Error('Something went wrong!'); }
ThrowerHandler(c) == Throw(Thrown)

\* Mutant: the 404 handler hands the request on.
Send404HandlerCallsNext(c) == CallNext

\* (req, res, next) => { res.status(404).json(..); }
Send404Handler(c) == Send(StatusNotFound)

\* (req, res) => { res.send('Page Not Found!'); }: no status is set, so the
\* response goes out with 200.
PageNotFoundHandler(c) == Send(StatusOK)

\* (err, req, res, next) => { res.status(500).json(..); }
ErrorHandler500(c) == Send(StatusServerError)

\* asyncHandler(async (req, res) => { const data = await ..; res.json(data); })
AsyncRouteHandler(c) == Await

HandlerDecision(h, c) ==
  CASE h = "logger"       -> LoggerHandler(c)
    [] h = "auth"         -> AuthHandler(c)
    [] h = "route"        -> RouteHandler(c)
    [] h = "notFound"     -> NotFoundHandler(c)
    [] h = "errorHandler" -> ErrorHandler(c)
    [] h = "forgot"       -> ForgotHandler(c)
    [] h = "json"         -> JsonHandler(c)
    [] h = "authenticate" -> AuthenticateHandler(c)
    [] h = "errorRoute"   -> ErrorRouteHandler(c)
    [] h = "thrower"      -> ThrowerHandler(c)
    [] h = "send404"      -> Send404Handler(c)
    [] h = "pageNotFound" -> PageNotFoundHandler(c)
    [] h = "errorHandler500" -> ErrorHandler500(c)
    [] h = "asyncRoute"   -> AsyncRouteHandler(c)
    [] IsRouter(h)        -> Delegate

\* ------------------------------------------------------------------- state
VARIABLES
  phase,          \* "setup" while mounting, "serving" after app.listen
  entries,        \* the mounted entries, in mount order
  ctx,            \* the RequestContext of the request being served
  pc,             \* "idle" | "walking" | "inHandler" | "boundary" | "done"
  idx,            \* the index at which the walk resumes
  cur,            \* the entry whose handler is pending, 0 if none
  result,         \* "none" | "Finalized" | "Unhandled"
  visited,        \* history: the invocations of this request, in order
  errLog,         \* history: every assignment of ctx.errorState
  expired,        \* the request's deadline has passed
  finalizedBy,    \* history: index of the entry that finalised, 0 if none
  answeredBy,     \* history: who wrote the response: "none" | "handler" | "boundary"
  abandoned,      \* the entry whose handler the deadline cut short and which
                  \* has not completed yet, 0 if none
  rejected,       \* history: completions of an abandoned handler, dropped
  sub,            \* inside a router: the index at which its walk resumes, else 0
  subcur,         \* inside a router: the router entry whose handler is pending
  subVisited,     \* history: the invocations inside routers, in order
  reqs,           \* concurrent serving: the requests in progress
  requestCount,   \* part_000:190 `let requestCount = 0`, one per process
  clock,          \* concurrent serving: the time new Date() reads
  appLog,         \* the logger script: app.log and the appends under way
  fetch,          \* callback.js: the call of fetchUser, its timer, its callbacks
  stream,         \* writeable.js: the write stream and its file
  taskQueue,      \* part_000: the TaskQueue object and the events it emitted
  usersDb,        \* README, CRUD example: the users array
  shop,           \* part_000, cart example: the session's cart
  authDb          \* README, token authentication: users and sessions

\* The position of a walk inside a router.
routerVars == <<sub, subcur, subVisited>>

\* The state of the program that serves two requests at a time.
concVars == <<reqs, requestCount, clock>>

\* The state of the other programs of the notes, each with a specification
\* of its own.
sideVars == <<appLog, fetch, stream, taskQueue, usersDb, shop, authDb>>

vars == <<phase, entries, ctx, pc, idx, cur, result, visited, errLog,
                 expired, finalizedBy, answeredBy, abandoned, rejected,
                 routerVars, concVars, sideVars>>

\* The value of a variable that the program at hand does not have.
Unused == <<>>

\* None of the other programs is running.
SideIdle ==
  /\ appLog = Unused
  /\ fetch = Unused
  /\ stream = Unused
  /\ taskQueue = Unused
  /\ usersDb = Unused
  /\ shop = Unused
  /\ authDb = Unused

IdleCtx ==
  [path |-> <<Slash>>, method |-> "GET", authorized |-> FALSE, token |-> "none",
   deadline |-> FALSE, responseStarted |-> FALSE, errorState |-> NoError,
   status |-> 0]

Init ==
  /\ phase = "setup"
  /\ entries = <<>>
  /\ ctx = IdleCtx
  /\ pc = "idle"
  /\ idx = 1
  /\ cur = 0
  /\ result = "none"
  /\ visited = <<>>
  /\ errLog = <<>>
  /\ expired = FALSE
  /\ finalizedBy = 0
  /\ answeredBy = "none"
  /\ abandoned = 0
  /\ rejected = <<>>
  /\ sub = 0
  /\ subcur = 0
  /\ subVisited = <<>>
  /\ reqs = <<>>
  /\ requestCount = 0
  /\ clock = 0
  /\ SideIdle

\* ------------------------------------------------------------------- setup
\* app.use / app.get / app.post: append to the list.
Mount(e) ==
  /\ phase = "setup"
  /\ Len(entries) < MaxEntries
  /\ entries' = Append(entries, e)
  /\ UNCHANGED <<phase, ctx, pc, idx, cur, result, visited, errLog,
                 expired, finalizedBy, answeredBy>>
  /\ UNCHANGED <<abandoned, rejected, routerVars, concVars, sideVars>>

\* app.listen(port)
Listen ==
  /\ phase = "setup"
  /\ phase' = "serving"
  /\ UNCHANGED <<entries, ctx, pc, idx, cur, result, visited, errLog,
                 expired, finalizedBy, answeredBy>>
  /\ UNCHANGED <<abandoned, rejected, routerVars, concVars, sideVars>>

\* ----------------------------------------------------------------- serving
\* The transport hands over a request: a fresh RequestContext, and the walk
\* starts at the first entry.  The request carries the right authorization
\* header (authorized) or none.
Receive(path, method, authorized, deadline) ==
  /\ phase = "serving"
  /\ pc = "idle"
  /\ ctx' = [path |-> path, method |-> method, authorized |-> authorized,
             token |-> IF authorized THEN "valid" ELSE "none",
             deadline |-> deadline, responseStarted |-> FALSE,
             errorState |-> NoError, status |-> 0]
  /\ pc' = "walking"
  /\ idx' = 1
  /\ cur' = 0
  /\ result' = "none"
  /\ visited' = <<>>
  /\ errLog' = <<>>
  /\ expired' = FALSE
  /\ finalizedBy' = 0
  /\ answeredBy' = "none"
  /\ UNCHANGED <<phase, entries>>
  /\ abandoned' = 0
  /\ rejected' = <<>>
  /\ sub' = 0
  /\ subcur' = 0
  /\ subVisited' = <<>>
  /\ UNCHANGED <<concVars, sideVars>>

\* Mutant: the walk gives up at the first entry that does not match instead
\* of going on to the next one.
AdvanceStopsAtMismatch ==
  /\ pc = "walking"
  /\ IF idx <= Len(entries) /\ Matches(entries[idx], ctx)
     THEN /\ pc' = "inHandler"
          /\ cur' = idx
          /\ visited' = Append(visited, [i |-> idx, err |-> ctx.errorState])
          /\ UNCHANGED result
     ELSE /\ pc' = "boundary"
          /\ cur' = 0
          /\ result' = "Unhandled"
          /\ UNCHANGED visited
  /\ UNCHANGED <<phase, entries, ctx, idx, errLog, expired, finalizedBy,
                 answeredBy>>
  /\ UNCHANGED <<abandoned, rejected, routerVars, concVars, sideVars>>

\* dispatch: go to the next matching entry and invoke its handler, or return
\* Unhandled at the end of the list.
Advance ==
  /\ pc = "walking"
  /\ LET j == NextMatch(entries, ctx, idx)
     IN  IF j <= Len(entries)
         THEN /\ pc' = "inHandler"
              /\ cur' = j
              /\ visited' = Append(visited, [i |-> j, err |-> ctx.errorState])
              /\ UNCHANGED result
         ELSE /\ pc' = "boundary"
              /\ cur' = 0
              /\ result' = "Unhandled"
              /\ UNCHANGED visited
  /\ UNCHANGED <<phase, entries, ctx, idx, errLog, expired, finalizedBy,
                 answeredBy>>
  /\ UNCHANGED <<abandoned, rejected, routerVars, concVars, sideVars>>

\* The pending handler calls next(): the walk resumes at the next entry.
HandlerProceed ==
  /\ pc = "inHandler"
  /\ HandlerDecision(entries[cur].handler, ctx).do = "next"
  /\ pc' = "walking"
  /\ idx' = cur + 1
  /\ cur' = 0
  /\ UNCHANGED <<phase, entries, ctx, result, visited, errLog, expired, finalizedBy,
                 answeredBy>>
  /\ UNCHANGED <<abandoned, rejected, routerVars, concVars, sideVars>>

\* Mutant: after next(err) the list is walked again from its first entry, in
\* search of error handlers.
HandlerProceedErrRestarts ==
  /\ pc = "inHandler"
  /\ LET d == HandlerDecision(entries[cur].handler, ctx)
     IN  /\ d.do = "nextErr"
         /\ ctx' = [ctx EXCEPT !.errorState = d.err]
         /\ errLog' = Append(errLog, [cause |-> "signal", by |-> cur,
                                      at |-> Len(visited), err |-> d.err])
  /\ pc' = "walking"
  /\ idx' = 1
  /\ cur' = 0
  /\ UNCHANGED <<phase, entries, result, visited, expired, finalizedBy,
                 answeredBy>>
  /\ UNCHANGED <<abandoned, rejected, routerVars, concVars, sideVars>>

\* The pending handler calls next(err): the error is stored on the request
\* and the walk resumes at the next entry.
HandlerProceedErr ==
  /\ pc = "inHandler"
  /\ LET d == HandlerDecision(entries[cur].handler, ctx)
     IN  /\ d.do = "nextErr"
         /\ ctx' = [ctx EXCEPT !.errorState = d.err]
         /\ errLog' = Append(errLog, [cause |-> "signal", by |-> cur,
                                      at |-> Len(visited), err |-> d.err])
  /\ pc' = "walking"
  /\ idx' = cur + 1
  /\ cur' = 0
  /\ UNCHANGED <<phase, entries, result, visited, expired, finalizedBy,
                 answeredBy>>
  /\ UNCHANGED <<abandoned, rejected, routerVars, concVars, sideVars>>

\* Mutant: the response is sent but the walk goes on with the next entry.
HandlerFinalizeAndContinue ==
  /\ pc = "inHandler"
  /\ LET d == HandlerDecision(entries[cur].handler, ctx)
     IN  /\ d.do = "finalize"
         /\ ctx' = [ctx EXCEPT !.responseStarted = TRUE, !.status = d.status]
  /\ pc' = "walking"
  /\ idx' = cur + 1
  /\ result' = "Finalized"
  /\ finalizedBy' = cur
  /\ cur' = 0
  /\ answeredBy' = "handler"
  /\ UNCHANGED <<phase, entries, visited, errLog, expired>>
  /\ UNCHANGED <<abandoned, rejected, routerVars, concVars, sideVars>>

\* The pending handler sends the response and does not call next(): the walk
\* stops here.
HandlerFinalize ==
  /\ pc = "inHandler"
  /\ LET d == HandlerDecision(entries[cur].handler, ctx)
     IN  /\ d.do = "finalize"
         /\ ctx' = [ctx EXCEPT !.responseStarted = TRUE, !.status = d.status]
  /\ pc' = "done"
  /\ result' = "Finalized"
  /\ finalizedBy' = cur
  /\ cur' = 0
  /\ answeredBy' = "handler"
  /\ UNCHANGED <<phase, entries, idx, visited, errLog, expired>>
  /\ UNCHANGED <<abandoned, rejected, routerVars, concVars, sideVars>>

\* Mutant: every Unhandled result is answered with 404.
BoundaryAlwaysNotFound ==
  /\ pc = "boundary"
  /\ ctx' = [ctx EXCEPT !.responseStarted = TRUE, !.status = StatusNotFound]
  /\ pc' = "done"
  /\ answeredBy' = "boundary"
  /\ UNCHANGED <<phase, entries, idx, cur, result, visited, errLog,
                 expired, finalizedBy>>
  /\ UNCHANGED <<abandoned, rejected, routerVars, concVars, sideVars>>

\* The caller of dispatch answers an Unhandled result: 404 when no error is
\* pending, 500 when one is.
Boundary ==
  /\ pc = "boundary"
  /\ ctx' = [ctx EXCEPT !.responseStarted = TRUE,
                        !.status = IF ctx.errorState = NoError
                                   THEN StatusNotFound
                                   ELSE StatusServerError]
  /\ pc' = "done"
  /\ answeredBy' = "boundary"
  /\ UNCHANGED <<phase, entries, idx, cur, result, visited, errLog,
                 expired, finalizedBy>>
  /\ UNCHANGED <<abandoned, rejected, routerVars, concVars, sideVars>>

\* The request's deadline passes before the response is finalised: a pending
\* handler is abandoned, a timeout error is injected and the walk goes on
\* through the error handlers.
DeadlineExpire ==
  /\ ctx.deadline
  /\ ~expired
  /\ pc \in {"walking", "inHandler"}
  /\ expired' = TRUE
  /\ ctx' = [ctx EXCEPT !.errorState = TimeoutError]
  /\ errLog' = Append(errLog, [cause |-> "timeout", by |-> cur,
                               at |-> Len(visited), err |-> TimeoutError])
  /\ idx' = IF pc = "inHandler" THEN cur + 1 ELSE idx
  /\ cur' = 0
  /\ pc' = "walking"
  /\ UNCHANGED <<phase, entries, result, visited, finalizedBy, answeredBy>>
  /\ abandoned' = IF pc = "inHandler" THEN cur ELSE 0
  /\ UNCHANGED <<rejected, routerVars, concVars, sideVars>>

\* Mutant: a timer that fires after the response was completed still injects
\* the timeout error and sends the walk on to the error handlers.
DeadlineAfterResponseInjects ==
  /\ ctx.deadline
  /\ ~expired
  /\ pc = "done"
  /\ expired' = TRUE
  /\ ctx' = [ctx EXCEPT !.errorState = TimeoutError]
  /\ errLog' = Append(errLog, [cause |-> "timeout", by |-> 0,
                               at |-> Len(visited), err |-> TimeoutError])
  /\ pc' = "walking"
  /\ UNCHANGED <<phase, entries, idx, cur, result, visited, finalizedBy,
                 answeredBy, abandoned, rejected, routerVars, concVars, sideVars>>

\* The request's deadline passes after the response was completed: there is
\* nothing left to cancel.
DeadlineAfterResponse ==
  /\ ctx.deadline
  /\ ~expired
  /\ pc = "done"
  /\ expired' = TRUE
  /\ UNCHANGED <<phase, entries, ctx, pc, idx, cur, result, visited, errLog,
                 finalizedBy, answeredBy, abandoned, rejected, routerVars,
                 concVars, sideVars>>

\* Mutant: a next() that arrives from the abandoned handler resumes the walk
\* behind that handler.
LateCompletionResumes ==
  /\ abandoned # 0
  /\ LET d == HandlerDecision(entries[abandoned].handler, ctx)
     IN  /\ d.do # "nothing"
         /\ rejected' = Append(rejected, [by |-> abandoned, do |-> d.do,
                                          after |-> ctx.responseStarted])
         /\ IF d.do = "finalize"
            THEN UNCHANGED <<pc, idx, cur>>
            ELSE pc' = "walking" /\ idx' = abandoned + 1 /\ cur' = 0
  /\ abandoned' = 0
  /\ UNCHANGED <<phase, entries, ctx, result, visited, errLog, expired,
                 finalizedBy, answeredBy, routerVars, concVars, sideVars>>

\* Mutant: a response that arrives from the abandoned handler is written over
\* the one already produced.
LateCompletionOverwrites ==
  /\ abandoned # 0
  /\ LET d == HandlerDecision(entries[abandoned].handler, ctx)
     IN  /\ d.do # "nothing"
         /\ rejected' = Append(rejected, [by |-> abandoned, do |-> d.do,
                                          after |-> ctx.responseStarted])
         /\ ctx' = IF d.do = "finalize"
                   THEN [ctx EXCEPT !.responseStarted = TRUE, !.status = d.status]
                   ELSE ctx
  /\ abandoned' = 0
  /\ UNCHANGED <<phase, entries, pc, idx, cur, result, visited, errLog,
                 expired, finalizedBy, answeredBy, routerVars, concVars, sideVars>>

\* The handler that the deadline cut short completes after all: its next(),
\* next(err) or response comes too late and is dropped.
LateCompletion ==
  /\ abandoned # 0
  /\ LET d == HandlerDecision(entries[abandoned].handler, ctx)
     IN  /\ d.do # "nothing"
         /\ rejected' = Append(rejected, [by |-> abandoned, do |-> d.do,
                                          after |-> ctx.responseStarted])
  /\ abandoned' = 0
  /\ UNCHANGED <<phase, entries, ctx, pc, idx, cur, result, visited, errLog,
                 expired, finalizedBy, answeredBy, routerVars, concVars, sideVars>>

\* The response is on the wire: the request's context is dropped and the
\* server waits for the next request.
Discard ==
  /\ pc = "done"
  /\ ctx' = IdleCtx
  /\ pc' = "idle"
  /\ idx' = 1
  /\ cur' = 0
  /\ result' = "none"
  /\ visited' = <<>>
  /\ errLog' = <<>>
  /\ expired' = FALSE
  /\ finalizedBy' = 0
  /\ answeredBy' = "none"
  /\ UNCHANGED <<phase, entries>>
  /\ abandoned' = 0
  /\ rejected' = <<>>
  /\ sub' = 0
  /\ subcur' = 0
  /\ subVisited' = <<>>
  /\ UNCHANGED <<concVars, sideVars>>

Next ==
  \/ \E e \in Entries : Mount(e)
  \/ Listen
  \/ \E p \in Paths, m \in Methods, a \in BOOLEAN, d \in BOOLEAN : Receive(p, m, a, d)
  \/ Advance
  \/ HandlerProceed
  \/ HandlerProceedErr
  \/ HandlerFinalize
  \/ Boundary
  \/ DeadlineExpire
  \/ DeadlineAfterResponse
  \/ LateCompletion
  \/ Discard

Spec == Init /\ [][Next]_vars

\* The event loop runs every callback that is ready: a walk that can go on
\* does, a handler that is going to call next() or to send the response does
\* so, and a timer that was set fires.
Fairness ==
  /\ WF_vars(Advance)
  /\ WF_vars(HandlerProceed)
  /\ WF_vars(HandlerProceedErr)
  /\ WF_vars(HandlerFinalize)
  /\ WF_vars(Boundary)
  /\ WF_vars(DeadlineExpire)

LiveSpec == Spec /\ Fairness

\* ------------------------------------------------ the programs of the notes
\* part_008: logger, authentication for every path, '/protected' and '/'.
ProtectedApp == <<LoggerEntry, GlobalAuthEntry, RouteEntry, RootRouteEntry>>

\* part_000, Example 3: authenticate under '/api', then '/api/profile'.
ProfileApp == <<AuthenticateEntry, ApiRouteEntry>>

\* Logger, body parser, authentication under '/api' and a GET route below
\* '/api', with the authentication middleware of part_008 ..
ScenarioApp == <<LoggerEntry, JsonEntry, AuthEntry, ApiRouteEntry>>

\* .. and with the one that part_000 mounts under '/api'.
ScenarioAppAuthenticate == <<LoggerEntry, JsonEntry, AuthenticateEntry, ApiRouteEntry>>

\* part_000, Basic Error Handler: '/error' calls next(error), the 404 handler
\* calls next(error), the error handler answers.
ErrorApp == <<JsonEntry, ErrorRouteEntry, NotFoundEntry, ErrorHandlerEntry>>

\* README, Basic Error Handler: '/error' throws, the 404 handler answers 404,
\* the error handler answers 500.
ThrowApp == <<ThrowerEntry, Send404Entry, ErrorHandler500Entry>>

\* part_000, Advanced Error Handling: a route wrapped in asyncHandler, then
\* the global error handler.
AsyncApp == <<AsyncRouteEntry, ErrorHandlerEntry>>

\* README, app.js: body parser, then the two routers.
UsersApp == <<JsonEntry, UserRoutesEntry, ProductRoutesEntry>>

\* part_000, Admin Router with Middleware.
AdminApp == <<AdminRouterEntry>>

\* A router, then a route of the application for a path below the router's
\* mount which the router itself does not serve.
GhostApp == <<UserRoutesEntry, GhostRouteEntry>>

\* part_000, Always Call next(): the middleware that forgot to, then a route.
ForgotApp == <<ForgotEntry, RouteEntry>>

\* routing.js: '/', '/about', '/home', then the handler for every other page.
RoutingApp == <<RootRouteEntry, RouteEntry, HomeRouteEntry, PageNotFoundEntry>>

\* README, "404 route (must be last)", with a route mounted behind it all the
\* same.
LateRouteApp == <<RootRouteEntry, Send404Entry, RouteEntry>>

Programs ==
  { ProtectedApp, ProfileApp, ScenarioApp, ScenarioAppAuthenticate, ErrorApp,
    ThrowApp, AsyncApp, UsersApp, AdminApp, GhostApp, ForgotApp, RoutingApp,
    LateRouteApp }

\* The state after a program has run down to app.listen().
ProgramInit ==
  /\ phase = "serving"
  /\ entries \in Programs
  /\ ctx = IdleCtx
  /\ pc = "idle"
  /\ idx = 1
  /\ cur = 0
  /\ result = "none"
  /\ visited = <<>>
  /\ errLog = <<>>
  /\ expired = FALSE
  /\ finalizedBy = 0
  /\ answeredBy = "none"
  /\ abandoned = 0
  /\ rejected = <<>>
  /\ sub = 0
  /\ subcur = 0
  /\ subVisited = <<>>
  /\ reqs = <<>>
  /\ requestCount = 0
  /\ clock = 0
  /\ SideIdle

\* A request that carries an authorization header with the wrong token.
ReceiveInvalidToken(path, method) ==
  /\ phase = "serving"
  /\ pc = "idle"
  /\ ctx' = [path |-> path, method |-> method, authorized |-> FALSE,
             token |-> "invalid", deadline |-> FALSE, responseStarted |-> FALSE,
             errorState |-> NoError, status |-> 0]
  /\ pc' = "walking"
  /\ idx' = 1
  /\ cur' = 0
  /\ result' = "none"
  /\ visited' = <<>>
  /\ errLog' = <<>>
  /\ expired' = FALSE
  /\ finalizedBy' = 0
  /\ answeredBy' = "none"
  /\ abandoned' = 0
  /\ rejected' = <<>>
  /\ sub' = 0
  /\ subcur' = 0
  /\ subVisited' = <<>>
  /\ UNCHANGED <<phase, entries, concVars, sideVars>>

\* Mutant: an exception thrown by a handler leaves the dispatch: the request
\* is over without a result.
HandlerThrowEscapes ==
  /\ pc = "inHandler"
  /\ HandlerDecision(entries[cur].handler, ctx).do = "throw"
  /\ pc' = "done"
  /\ cur' = 0
  /\ UNCHANGED <<phase, entries, ctx, idx, result, visited, errLog, expired,
                 finalizedBy, answeredBy, abandoned, rejected, routerVars,
                 concVars, sideVars>>

\* The pending handler throws: the exception is caught around the handler and
\* handed on as if the handler had called next(err).
HandlerThrow ==
  /\ pc = "inHandler"
  /\ LET d == HandlerDecision(entries[cur].handler, ctx)
     IN  /\ d.do = "throw"
         /\ ctx' = [ctx EXCEPT !.errorState = d.err]
         /\ errLog' = Append(errLog, [cause |-> "throw", by |-> cur,
                                      at |-> Len(visited), err |-> d.err])
  /\ pc' = "walking"
  /\ idx' = cur + 1
  /\ cur' = 0
  /\ UNCHANGED <<phase, entries, result, visited, expired, finalizedBy,
                 answeredBy, abandoned, rejected, routerVars, concVars, sideVars>>

\* The promise of a handler wrapped in asyncHandler settles: fulfilled, the
\* handler has sent the response; rejected, .catch(next) calls next(err).
AsyncSettle(fulfilled) ==
  /\ pc = "inHandler"
  /\ HandlerDecision(entries[cur].handler, ctx).do = "await"
  /\ IF fulfilled
     THEN /\ ctx' = [ctx EXCEPT !.responseStarted = TRUE, !.status = StatusOK]
          /\ pc' = "done"
          /\ result' = "Finalized"
          /\ finalizedBy' = cur
          /\ answeredBy' = "handler"
          /\ UNCHANGED <<idx, errLog>>
     ELSE /\ ctx' = [ctx EXCEPT !.errorState = Rejected]
          /\ errLog' = Append(errLog, [cause |-> "signal", by |-> cur,
                                       at |-> Len(visited), err |-> Rejected])
          /\ pc' = "walking"
          /\ idx' = cur + 1
          /\ UNCHANGED <<result, finalizedBy, answeredBy>>
  /\ cur' = 0
  /\ UNCHANGED <<phase, entries, visited, expired, abandoned, rejected,
                 routerVars, concVars, sideVars>>

\* ------------------------------------------------------------------ routers
\* The request as the router at entries[cur] sees it.
RouterCtx == [ctx EXCEPT !.path = Residual(ctx.path, entries[cur].prefix)]

\* The list of the router at entries[cur].
RouterList == RouterEntries(entries[cur].handler)

\* The entry invoked is a router: the request is handed to the router's list,
\* which is walked from its first entry.
RouterEnter ==
  /\ pc = "inHandler"
  /\ HandlerDecision(entries[cur].handler, ctx).do = "delegate"
  /\ pc' = "subWalking"
  /\ sub' = 1
  /\ subcur' = 0
  /\ UNCHANGED <<phase, entries, ctx, idx, cur, result, visited, errLog,
                 expired, finalizedBy, answeredBy, abandoned, rejected,
                 subVisited, concVars, sideVars>>

\* Mutant: a router that comes to the end of its list returns Unhandled for
\* the whole request.
RouterAdvanceUnhandledEnds ==
  /\ pc = "subWalking"
  /\ LET j == NextMatch(RouterList, RouterCtx, sub)
     IN  IF j <= Len(RouterList)
         THEN /\ pc' = "subInHandler"
              /\ subcur' = j
              /\ subVisited' = Append(subVisited, [at |-> cur, i |-> j])
              /\ UNCHANGED <<idx, cur, sub, result>>
         ELSE /\ pc' = "boundary"
              /\ result' = "Unhandled"
              /\ cur' = 0
              /\ sub' = 0
              /\ UNCHANGED <<idx, subcur, subVisited>>
  /\ UNCHANGED <<phase, entries, ctx, visited, errLog, expired,
                 finalizedBy, answeredBy, abandoned, rejected, concVars, sideVars>>

\* The router goes to its next matching entry and invokes it; at the end of
\* its list it hands the request back and the walk of the application goes
\* on behind the router.
RouterAdvance ==
  /\ pc = "subWalking"
  /\ LET j == NextMatch(RouterList, RouterCtx, sub)
     IN  IF j <= Len(RouterList)
         THEN /\ pc' = "subInHandler"
              /\ subcur' = j
              /\ subVisited' = Append(subVisited, [at |-> cur, i |-> j])
              /\ UNCHANGED <<idx, cur, sub>>
         ELSE /\ pc' = "walking"
              /\ idx' = cur + 1
              /\ cur' = 0
              /\ sub' = 0
              /\ UNCHANGED <<subcur, subVisited>>
  /\ UNCHANGED <<phase, entries, ctx, result, visited, errLog, expired,
                 finalizedBy, answeredBy, abandoned, rejected, concVars, sideVars>>

\* The pending handler of the router calls next(): the router's walk resumes
\* at its next entry.
RouterHandlerProceed ==
  /\ pc = "subInHandler"
  /\ HandlerDecision(RouterList[subcur].handler, RouterCtx).do = "next"
  /\ pc' = "subWalking"
  /\ sub' = subcur + 1
  /\ subcur' = 0
  /\ UNCHANGED <<phase, entries, ctx, idx, cur, result, visited, errLog,
                 expired, finalizedBy, answeredBy, abandoned, rejected,
                 subVisited, concVars, sideVars>>

\* The pending handler of the router sends the response: the request is
\* finalised, inside the router entry.
RouterHandlerFinalize ==
  /\ pc = "subInHandler"
  /\ LET d == HandlerDecision(RouterList[subcur].handler, RouterCtx)
     IN  /\ d.do = "finalize"
         /\ ctx' = [ctx EXCEPT !.responseStarted = TRUE, !.status = d.status]
  /\ pc' = "done"
  /\ result' = "Finalized"
  /\ finalizedBy' = cur
  /\ cur' = 0
  /\ answeredBy' = "handler"
  /\ UNCHANGED <<phase, entries, idx, visited, errLog, expired, abandoned,
                 rejected, sub, subcur, subVisited, concVars, sideVars>>

ProgramNext ==
  \/ \E p \in ProgramPaths, m \in Methods, a \in BOOLEAN : Receive(p, m, a, FALSE)
  \/ \E p \in ProgramPaths, m \in Methods : ReceiveInvalidToken(p, m)
  \/ Advance
  \/ HandlerProceed
  \/ HandlerProceedErr
  \/ HandlerFinalize
  \/ HandlerThrow
  \/ \E f \in BOOLEAN : AsyncSettle(f)
  \/ RouterEnter
  \/ RouterAdvance
  \/ RouterHandlerProceed
  \/ RouterHandlerFinalize
  \/ Boundary
  \/ Discard

\* The programs of the notes, serving one request at a time; none of them
\* sets a deadline.
ProgramSpec == ProgramInit /\ [][ProgramNext]_vars

\* Every callback that is ready runs, and a promise that is awaited settles.
ProgramFairness ==
  /\ WF_vars(Advance)
  /\ WF_vars(HandlerProceed)
  /\ WF_vars(HandlerProceedErr)
  /\ WF_vars(HandlerFinalize)
  /\ WF_vars(HandlerThrow)
  /\ WF_vars(\E f \in BOOLEAN : AsyncSettle(f))
  /\ WF_vars(RouterEnter)
  /\ WF_vars(RouterAdvance)
  /\ WF_vars(RouterHandlerProceed)
  /\ WF_vars(RouterHandlerFinalize)
  /\ WF_vars(Boundary)

ProgramLiveSpec == ProgramSpec /\ ProgramFairness

\* ------------------------------------------------- two requests at a time
\* The requests that the server has in progress side by side.
Requests == 1..MaxRequests

\* The fields that the middlewares of the notes put on req; 0 stands for a
\* field that was never set (undefined).
Keys == {"requestTime", "isAuthenticated"}
Undefined == 0

\* app.use((req, res, next) => { req.requestTime = new Date().toISOString(); next() })
TimeEntry == Use(NoPath, "time")

\* app.use((req, res, next) => { req.isAuthenticated = true; next() })
AuthFlagEntry == Use(NoPath, "authFlag")

\* app.use((req, res, next) => { requestCount++; next() })
CounterEntry == Use(NoPath, "counter")

\* app.get('/', (req, res) => { res.json({ requestTime: req.requestTime,
\*                                         isAuthenticated: req.isAuthenticated }) })
LifecycleRouteEntry == Route("GET", Root, "lifecycleRoute")

\* app.get('/stats', (req, res) => { res.json({ totalRequests: requestCount }) })
StatsRouteEntry == Route("GET", PathA, "stats")

\* The middlewares of the request lifecycle example and the request counter,
\* then the two routes.
ConcApp ==
  <<TimeEntry, AuthFlagEntry, CounterEntry, LifecycleRouteEntry, StatsRouteEntry>>

\* A request object before anything is put on it.
FreshRequest(path, method) ==
  [pc |-> "walking", idx |-> 1, path |-> path, method |-> method,
   attributes |-> [k \in Keys |-> Undefined],
   wrote |-> [k \in Keys |-> Undefined],
   body |-> [requestTime |-> Undefined, isAuthenticated |-> Undefined,
             totalRequests |-> Undefined],
   status |-> 0]

NoRequest == [FreshRequest(Root, "GET") EXCEPT !.pc = "idle"]

\* Mutant: the field is put on an object that all requests share.
SetAttrShared(rs, r, k, v) ==
  [s \in DOMAIN rs |->
     IF s = r
     THEN [rs[s] EXCEPT !.attributes[k] = v, !.wrote[k] = v]
     ELSE [rs[s] EXCEPT !.attributes[k] = v]]

\* req.k = v, on the req object of request r; `wrote` keeps what the
\* handlers of r themselves have stored.
SetAttr(rs, r, k, v) ==
  [rs EXCEPT ![r].attributes[k] = v, ![r].wrote[k] = v]

\* What the walk of request r is matched with.
ConcCtx(r) ==
  [path |-> reqs[r].path, method |-> reqs[r].method, errorState |-> NoError]

\* The variables of the single walk, which this program does not use.
walkVars ==
  <<ctx, pc, idx, cur, result, visited, errLog, expired, finalizedBy,
    answeredBy, abandoned, rejected, routerVars>>

ConcInit ==
  /\ phase = "serving"
  /\ entries = ConcApp
  /\ ctx = IdleCtx
  /\ pc = "idle"
  /\ idx = 1
  /\ cur = 0
  /\ result = "none"
  /\ visited = <<>>
  /\ errLog = <<>>
  /\ expired = FALSE
  /\ finalizedBy = 0
  /\ answeredBy = "none"
  /\ abandoned = 0
  /\ rejected = <<>>
  /\ sub = 0
  /\ subcur = 0
  /\ subVisited = <<>>
  /\ reqs = [r \in Requests |-> NoRequest]
  /\ requestCount = 0
  /\ clock = 1
  /\ SideIdle

\* A request arrives while others may be in progress: it gets a req object
\* of its own.
ConcReceive(r, path, method) ==
  /\ reqs[r].pc = "idle"
  /\ reqs' = [reqs EXCEPT ![r] = FreshRequest(path, method)]
  /\ UNCHANGED <<phase, entries, walkVars, requestCount, clock, sideVars>>

\* The next matching entry is invoked for request r and runs to its end (the
\* handlers are synchronous): a middleware stores its field or counts and
\* calls next(), a route answers with what it reads.
ConcInvoke(r) ==
  /\ reqs[r].pc = "walking"
  /\ LET j == NextMatch(entries, ConcCtx(r), reqs[r].idx)
     IN  /\ j <= Len(entries)
         /\ LET h == entries[j].handler
                moved == [reqs EXCEPT ![r].idx = j + 1]
            IN  CASE h = "time" ->
                       /\ reqs' = SetAttr(moved, r, "requestTime", clock)
                       /\ clock' = clock + 1
                       /\ UNCHANGED requestCount
                  [] h = "authFlag" ->
                       /\ reqs' = SetAttr(moved, r, "isAuthenticated", 1)
                       /\ UNCHANGED <<clock, requestCount>>
                  [] h = "counter" ->
                       /\ requestCount' = requestCount + 1
                       /\ reqs' = moved
                       /\ UNCHANGED clock
                  [] h = "lifecycleRoute" ->
                       /\ reqs' = [moved EXCEPT
                                     ![r].pc = "done",
                                     ![r].status = StatusOK,
                                     ![r].body.requestTime = reqs[r].attributes["requestTime"],
                                     ![r].body.isAuthenticated = reqs[r].attributes["isAuthenticated"]]
                       /\ UNCHANGED <<clock, requestCount>>
                  [] h = "stats" ->
                       /\ reqs' = [moved EXCEPT
                                     ![r].pc = "done",
                                     ![r].status = StatusOK,
                                     ![r].body.totalRequests = requestCount]
                       /\ UNCHANGED <<clock, requestCount>>
  /\ UNCHANGED <<phase, entries, walkVars, sideVars>>

\* No entry is left for request r: it gets the default 404.
ConcUnhandled(r) ==
  /\ reqs[r].pc = "walking"
  /\ NextMatch(entries, ConcCtx(r), reqs[r].idx) > Len(entries)
  /\ reqs' = [reqs EXCEPT ![r].pc = "done", ![r].status = StatusNotFound]
  /\ UNCHANGED <<phase, entries, walkVars, requestCount, clock, sideVars>>

ConcNext ==
  \/ \E r \in Requests, p \in {Root, PathA}, m \in Methods : ConcReceive(r, p, m)
  \/ \E r \in Requests : ConcInvoke(r)
  \/ \E r \in Requests : ConcUnhandled(r)

\* The server with MaxRequests requests in progress, their handlers
\* interleaved in every order.
ConcSpec == ConcInit /\ [][ConcNext]_vars

\* ------------------------------------------------------ the other programs
\* No Express application is part of the program at hand.
NoServer ==
  /\ phase = "setup"
  /\ entries = <<>>
  /\ ctx = IdleCtx
  /\ pc = "idle"
  /\ idx = 1
  /\ cur = 0
  /\ result = "none"
  /\ visited = <<>>
  /\ errLog = <<>>
  /\ expired = FALSE
  /\ finalizedBy = 0
  /\ answeredBy = "none"
  /\ abandoned = 0
  /\ rejected = <<>>
  /\ sub = 0
  /\ subcur = 0
  /\ subVisited = <<>>
  /\ reqs = <<>>
  /\ requestCount = 0
  /\ clock = 0

serverVars == <<phase, entries, walkVars, concVars>>

\* ------------------------------------------- the logger script (part_003)
\* logMessage('Application started'); logMessage('User logged in');
\* logMessage('Processing data');
Messages == <<"Application started", "User logged in", "Processing data">>

\* Where the append of one message stands: not asked for yet; asked for, the
\* file being opened by the thread pool; opened, the write handed to the
\* thread pool; written; and its callback called.
AppendStages == {"none", "opening", "writing", "written", "done"}

LogInit ==
  /\ NoServer
  /\ appLog = [called |-> 0,
               stage |-> [i \in 1..Len(Messages) |-> "none"],
               file |-> <<>>,
               added |-> 0]
  /\ fetch = Unused
  /\ stream = Unused
  /\ taskQueue = Unused
  /\ usersDb = Unused
  /\ shop = Unused
  /\ authDb = Unused

notAppLog == <<fetch, stream, taskQueue, usersDb, shop, authDb>>

\* The script has run to its end: callbacks can be called.
ScriptOver == appLog.called = Len(Messages)

\* logMessage(message): fs.appendFile hands the request to the thread pool
\* and returns at once; the script goes on to the next call.
LogMessage ==
  /\ appLog.called < Len(Messages)
  /\ appLog' = [appLog EXCEPT !.called = @ + 1,
                              !.stage[appLog.called + 1] = "opening"]
  /\ UNCHANGED <<serverVars, notAppLog>>

\* The file is open for message i: once the script is over the event loop
\* gets to the completion and hands the write to the thread pool.  The
\* requests of the three calls are in the pool together and complete in any
\* order.
AppendOpened(i) ==
  /\ ScriptOver
  /\ appLog.stage[i] = "opening"
  /\ appLog' = [appLog EXCEPT !.stage[i] = "writing"]
  /\ UNCHANGED <<serverVars, notAppLog>>

\* A thread of the pool writes the entry of message i at the end of the file.
AppendWritten(i) ==
  /\ appLog.stage[i] = "writing"
  /\ appLog' = [appLog EXCEPT !.stage[i] = "written",
                              !.file = Append(@, Messages[i])]
  /\ UNCHANGED <<serverVars, notAppLog>>

\* (err) => { if (err) throw err; console.log('Log entry added'); }
AppendCallback(i) ==
  /\ appLog.stage[i] = "written"
  /\ appLog' = [appLog EXCEPT !.stage[i] = "done", !.added = @ + 1]
  /\ UNCHANGED <<serverVars, notAppLog>>

LogNext ==
  \/ LogMessage
  \/ \E i \in 1..Len(Messages) : AppendOpened(i)
  \/ \E i \in 1..Len(Messages) : AppendWritten(i)
  \/ \E i \in 1..Len(Messages) : AppendCallback(i)

LogSpec == LogInit /\ [][LogNext]_vars

\* ----------------------------------------------- fetchUser (callback.js)
\* The user ids that fetchUser is called with; 0 is the falsy one.
UserIds == {0, 101, 102}

\* !userId
Falsy(userId) == userId = 0

FetchInit ==
  /\ NoServer
  /\ fetch = [pc |-> "idle", calls |-> <<>>, timers |-> <<>>, callbacks |-> <<>>]
  /\ appLog = Unused
  /\ stream = Unused
  /\ taskQueue = Unused
  /\ usersDb = Unused
  /\ shop = Unused
  /\ authDb = Unused

notFetch == <<appLog, stream, taskQueue, usersDb, shop, authDb>>

\* The call of fetchUser that is running, and its argument.
CurrentCall == Len(fetch.calls)
CurrentUserId == fetch.calls[CurrentCall]

\* fetchUser(userId, callback) is called, from the script or from a later
\* event; control is at line 2.
FetchUserCall(userId) ==
  /\ fetch.pc = "idle"
  /\ Len(fetch.calls) < MaxCalls
  /\ fetch' = [fetch EXCEPT !.pc = "line2", !.calls = Append(@, userId)]
  /\ UNCHANGED <<serverVars, notFetch>>

\* if (!userId) { .. }
FetchUserTest ==
  /\ fetch.pc = "line2"
  /\ fetch' = [fetch EXCEPT !.pc = IF Falsy(CurrentUserId) THEN "line3" ELSE "line8"]
  /\ UNCHANGED <<serverVars, notFetch>>

\* callback(new Error("User ID is required"), null), while fetchUser runs.
FetchUserReject ==
  /\ fetch.pc = "line3"
  /\ fetch' = [fetch EXCEPT
                 !.pc = "line4",
                 !.callbacks = Append(@, [call |-> CurrentCall, err |-> TRUE,
                                          user |-> 0, inside |-> TRUE])]
  /\ UNCHANGED <<serverVars, notFetch>>

\* Mutant: the return is missing and control goes on to setTimeout.
FetchUserNoReturn ==
  /\ fetch.pc = "line4"
  /\ fetch' = [fetch EXCEPT !.pc = "line8"]
  /\ UNCHANGED <<serverVars, notFetch>>

\* return;
FetchUserReturn ==
  /\ fetch.pc = "line4"
  /\ fetch' = [fetch EXCEPT !.pc = "idle"]
  /\ UNCHANGED <<serverVars, notFetch>>

\* setTimeout(() => { .. }, 1000), and fetchUser returns.
FetchUserSetTimeout ==
  /\ fetch.pc = "line8"
  /\ fetch' = [fetch EXCEPT
                 !.pc = "idle",
                 !.timers = Append(@, [call |-> CurrentCall, userId |-> CurrentUserId])]
  /\ UNCHANGED <<serverVars, notFetch>>

\* The oldest timer fires, when nothing else is running: const user =
\* { id: userId, name: "Ronak" }; callback(null, user).  Timers of the same
\* delay fire in the order they were set.
FetchTimerFires ==
  /\ fetch.pc = "idle"
  /\ fetch.timers # <<>>
  /\ fetch' = [fetch EXCEPT
                 !.timers = Tail(@),
                 !.callbacks = Append(@, [call |-> Head(fetch.timers).call, err |-> FALSE,
                                          user |-> Head(fetch.timers).userId,
                                          inside |-> FALSE])]
  /\ UNCHANGED <<serverVars, notFetch>>

FetchNext ==
  \/ \E userId \in UserIds : FetchUserCall(userId)
  \/ FetchUserTest
  \/ FetchUserReject
  \/ FetchUserReturn
  \/ FetchUserSetTimeout
  \/ FetchTimerFires

FetchSpec == FetchInit /\ [][FetchNext]_vars

\* ------------------------------------- from the first app.use to the requests
\* The program of ConcSpec from its first line: nothing is mounted yet.
ServeInit ==
  /\ phase = "setup"
  /\ entries = <<>>
  /\ ctx = IdleCtx
  /\ pc = "idle"
  /\ idx = 1
  /\ cur = 0
  /\ result = "none"
  /\ visited = <<>>
  /\ errLog = <<>>
  /\ expired = FALSE
  /\ finalizedBy = 0
  /\ answeredBy = "none"
  /\ abandoned = 0
  /\ rejected = <<>>
  /\ sub = 0
  /\ subcur = 0
  /\ subVisited = <<>>
  /\ reqs = [r \in Requests |-> NoRequest]
  /\ requestCount = 0
  /\ clock = 1
  /\ SideIdle

\* Mutant: the new entry is put in front of the ones that are there.
ScriptMountPrepends ==
  /\ phase = "setup"
  /\ Len(entries) < Len(ConcApp)
  /\ entries' = <<ConcApp[Len(entries) + 1]>> \o entries
  /\ UNCHANGED <<phase, walkVars, concVars, sideVars>>

\* The script runs its next app.use / app.get.
ScriptMount ==
  /\ phase = "setup"
  /\ Len(entries) < Len(ConcApp)
  /\ entries' = Append(entries, ConcApp[Len(entries) + 1])
  /\ UNCHANGED <<phase, walkVars, concVars, sideVars>>

\* app.listen(3000), after the last mount.
ScriptListen ==
  /\ phase = "setup"
  /\ Len(entries) = Len(ConcApp)
  /\ phase' = "serving"
  /\ UNCHANGED <<entries, walkVars, concVars, sideVars>>

ServeNext ==
  \/ ScriptMount
  \/ ScriptListen
  \/ (phase = "serving" /\ ConcNext)

ServeSpec == ServeInit /\ [][ServeNext]_vars

\* ------------------------------------------- handlers that suspend, side by side
\* A request whose handlers may suspend between being invoked and calling
\* next(): the walk keeps the entry that is pending and, as history, the
\* entries it has invoked.
SuspendableRequest(path, method) ==
  FreshRequest(path, method) @@ [cur |-> 0, visited |-> <<>>]

SuspendInit ==
  /\ phase = "serving"
  /\ entries = ConcApp
  /\ ctx = IdleCtx
  /\ pc = "idle"
  /\ idx = 1
  /\ cur = 0
  /\ result = "none"
  /\ visited = <<>>
  /\ errLog = <<>>
  /\ expired = FALSE
  /\ finalizedBy = 0
  /\ answeredBy = "none"
  /\ abandoned = 0
  /\ rejected = <<>>
  /\ sub = 0
  /\ subcur = 0
  /\ subVisited = <<>>
  /\ reqs = [r \in Requests |-> [SuspendableRequest(Root, "GET") EXCEPT !.pc = "idle"]]
  /\ requestCount = 0
  /\ clock = 1
  /\ SideIdle

SuspendReceive(r, path, method) ==
  /\ reqs[r].pc = "idle"
  /\ reqs' = [reqs EXCEPT ![r] = SuspendableRequest(path, method)]
  /\ UNCHANGED <<phase, entries, walkVars, requestCount, clock, sideVars>>

\* The walk of request r invokes the next matching entry; the handler is now
\* pending, and other requests go on meanwhile.
SuspendEnter(r) ==
  /\ reqs[r].pc = "walking"
  /\ LET j == NextMatch(entries, ConcCtx(r), reqs[r].idx)
     IN  /\ j <= Len(entries)
         /\ reqs' = [reqs EXCEPT ![r].pc = "inHandler",
                                 ![r].cur = j,
                                 ![r].visited = Append(@, j)]
  /\ UNCHANGED <<phase, entries, walkVars, requestCount, clock, sideVars>>

\* Mutant: the walk resumes where it was looking when it found the pending
\* entry.
ResumeIndexRewalks(rs, r) == rs[r].idx

\* Where the walk of request r goes on when its pending handler calls next().
ResumeIndex(rs, r) == rs[r].cur + 1

\* The pending handler of request r completes: a middleware does its work and
\* calls next(), a route answers.
SuspendResume(r) ==
  /\ reqs[r].pc = "inHandler"
  /\ LET h == entries[reqs[r].cur].handler
         moved == [reqs EXCEPT ![r].pc = "walking",
                               ![r].idx = ResumeIndex(reqs, r),
                               ![r].cur = 0]
     IN  CASE h = "time" ->
                /\ reqs' = SetAttr(moved, r, "requestTime", clock)
                /\ clock' = clock + 1
                /\ UNCHANGED requestCount
           [] h = "authFlag" ->
                /\ reqs' = SetAttr(moved, r, "isAuthenticated", 1)
                /\ UNCHANGED <<clock, requestCount>>
           [] h = "counter" ->
                /\ requestCount' = requestCount + 1
                /\ reqs' = moved
                /\ UNCHANGED clock
           [] h = "lifecycleRoute" ->
                /\ reqs' = [moved EXCEPT
                              ![r].pc = "done",
                              ![r].status = StatusOK,
                              ![r].body.requestTime = reqs[r].attributes["requestTime"],
                              ![r].body.isAuthenticated = reqs[r].attributes["isAuthenticated"]]
                /\ UNCHANGED <<clock, requestCount>>
           [] h = "stats" ->
                /\ reqs' = [moved EXCEPT
                              ![r].pc = "done",
                              ![r].status = StatusOK,
                              ![r].body.totalRequests = requestCount]
                /\ UNCHANGED <<clock, requestCount>>
  /\ UNCHANGED <<phase, entries, walkVars, sideVars>>

SuspendUnhandled(r) ==
  /\ reqs[r].pc = "walking"
  /\ NextMatch(entries, ConcCtx(r), reqs[r].idx) > Len(entries)
  /\ reqs' = [reqs EXCEPT ![r].pc = "done", ![r].status = StatusNotFound]
  /\ UNCHANGED <<phase, entries, walkVars, requestCount, clock, sideVars>>

SuspendNext ==
  \/ \E r \in Requests, p \in {Root, PathA}, m \in Methods : SuspendReceive(r, p, m)
  \/ \E r \in Requests : SuspendEnter(r)
  \/ \E r \in Requests : SuspendResume(r)
  \/ \E r \in Requests : SuspendUnhandled(r)

SuspendSpec == SuspendInit /\ [][SuspendNext]_vars

\* --------------------------------------- the write stream (writeable.js)
\* writeStream.write("Hello "); writeStream.write("World");
Chunks == {"Hello ", "World"}

\* fs.createWriteStream('./UNIT1/stream/output.txt') has returned: the file
\* is being opened by the thread pool, nothing is buffered, the script is at
\* its first write.
StreamInit ==
  /\ NoServer
  /\ stream = [pc |-> "writing", accepted |-> <<>>, buffer |-> <<>>, file |-> <<>>,
               opened |-> FALSE, ending |-> FALSE, listeners |-> 0,
               finished |-> FALSE, finishCalls |-> 0]
  /\ appLog = Unused
  /\ fetch = Unused
  /\ taskQueue = Unused
  /\ usersDb = Unused
  /\ shop = Unused
  /\ authDb = Unused

notStream == <<appLog, fetch, taskQueue, usersDb, shop, authDb>>

\* writeStream.write(chunk): the chunk is put at the end of the stream's
\* buffer and the call returns.
StreamWrite(chunk) ==
  /\ stream.pc = "writing"
  /\ Len(stream.accepted) < MaxWrites
  /\ stream' = [stream EXCEPT !.accepted = Append(@, chunk),
                              !.buffer = Append(@, chunk)]
  /\ UNCHANGED <<serverVars, notStream>>

\* writeStream.end()
StreamEnd ==
  /\ stream.pc = "writing"
  /\ stream' = [stream EXCEPT !.pc = "ended", !.ending = TRUE]
  /\ UNCHANGED <<serverVars, notStream>>

\* writeStream.on('finish', () => { console.log("Finished writing") }), the
\* last statement of the script.
StreamOnFinish ==
  /\ stream.pc = "ended"
  /\ stream' = [stream EXCEPT !.pc = "over", !.listeners = @ + 1]
  /\ UNCHANGED <<serverVars, notStream>>

\* The thread pool has opened the file.
StreamOpened ==
  /\ ~stream.opened
  /\ stream' = [stream EXCEPT !.opened = TRUE]
  /\ UNCHANGED <<serverVars, notStream>>

\* With the script over and the file open, the stream writes the chunk at
\* the head of its buffer to the file, one chunk at a time.
StreamFlush ==
  /\ stream.pc = "over"
  /\ stream.opened
  /\ stream.buffer # <<>>
  /\ stream' = [stream EXCEPT !.file = Append(@, Head(stream.buffer)),
                              !.buffer = Tail(@)]
  /\ UNCHANGED <<serverVars, notStream>>

\* Mutant: 'finish' is emitted as soon as the stream is ending, whatever is
\* left in the buffer.
StreamFinishEarly ==
  /\ stream.pc = "over"
  /\ stream.ending
  /\ ~stream.finished
  /\ stream' = [stream EXCEPT !.finished = TRUE, !.finishCalls = @ + stream.listeners]
  /\ UNCHANGED <<serverVars, notStream>>

\* 'finish' is emitted, once, when end() has been called and the buffer is
\* empty, in a later turn of the event loop than the script: the listeners
\* registered by then are called.
StreamFinish ==
  /\ stream.pc = "over"
  /\ stream.ending
  /\ stream.opened
  /\ stream.buffer = <<>>
  /\ ~stream.finished
  /\ stream' = [stream EXCEPT !.finished = TRUE, !.finishCalls = @ + stream.listeners]
  /\ UNCHANGED <<serverVars, notStream>>

StreamNext ==
  \/ \E chunk \in Chunks : StreamWrite(chunk)
  \/ StreamEnd
  \/ StreamOnFinish
  \/ StreamOpened
  \/ StreamFlush
  \/ StreamFinish

StreamSpec == StreamInit /\ [][StreamNext]_vars

\* --------------------------------------------- the TaskQueue (part_000)
\* queue.addTask('Send Email'); queue.addTask('Generate Report');
Tasks == {"Send Email", "Generate Report"}

\* new TaskQueue(), with the three listeners of the example registered:
\* this.tasks = [].  `added` and `events` are history: the arguments of the
\* addTask calls and the events emitted, in order; `processCalls` counts the
\* calls of processNext.
QueueInit ==
  /\ NoServer
  /\ taskQueue = [tasks |-> <<>>, timers |-> <<>>, added |-> <<>>, events |-> <<>>,
                  processCalls |-> 0]
  /\ appLog = Unused
  /\ fetch = Unused
  /\ stream = Unused
  /\ usersDb = Unused
  /\ shop = Unused
  /\ authDb = Unused

notTaskQueue == <<appLog, fetch, stream, usersDb, shop, authDb>>

\* this.emit(name, task)
Emitted(name, task) == [name |-> name, task |-> task]

\* addTask(task) { this.tasks.push(task); this.emit('taskAdded', task); }
AddTask(task) ==
  /\ Len(taskQueue.added) < MaxTasks
  /\ taskQueue' = [taskQueue EXCEPT
                     !.tasks = Append(@, task),
                     !.added = Append(@, task),
                     !.events = Append(@, Emitted("taskAdded", task))]
  /\ UNCHANGED <<serverVars, notTaskQueue>>

\* Mutant: this.tasks.pop()
TakeLast(tasks) ==
  [task |-> tasks[Len(tasks)], rest |-> SubSeq(tasks, 1, Len(tasks) - 1)]

\* this.tasks.shift()
TakeFirst(tasks) == [task |-> Head(tasks), rest |-> Tail(tasks)]

\* processNext() { if (this.tasks.length > 0) { const task = this.tasks.shift();
\*   this.emit('taskProcessing', task); setTimeout(() => { .. }, 1000); } }
ProcessNext ==
  /\ taskQueue.processCalls < MaxCalls
  /\ IF Len(taskQueue.tasks) > 0
     THEN LET taken == TakeFirst(taskQueue.tasks)
          IN  taskQueue' = [taskQueue EXCEPT
                              !.tasks = taken.rest,
                              !.events = Append(@, Emitted("taskProcessing", taken.task)),
                              !.timers = Append(@, taken.task),
                              !.processCalls = @ + 1]
     ELSE taskQueue' = [taskQueue EXCEPT !.processCalls = @ + 1]
  /\ UNCHANGED <<serverVars, notTaskQueue>>

\* The oldest timer fires: this.emit('taskCompleted', task).
TaskTimerFires ==
  /\ taskQueue.timers # <<>>
  /\ taskQueue' = [taskQueue EXCEPT
                     !.timers = Tail(@),
                     !.events = Append(@, Emitted("taskCompleted", Head(taskQueue.timers)))]
  /\ UNCHANGED <<serverVars, notTaskQueue>>

QueueNext ==
  \/ \E task \in Tasks : AddTask(task)
  \/ ProcessNext
  \/ TaskTimerFires

QueueSpec == QueueInit /\ [][QueueNext]_vars

\* --------------------------------------- the users CRUD example (README)
\* req.body.name of the requests.
Names == {"Ronak", "Priya", "Asha"}

\* parseInt(req.params.id) of the requests.
UserIdParams == 1..MaxUsers

\* let users = [{ id: 1, name: "Ronak", .. }, { id: 2, name: "Priya", .. }];
\* `status` and `sent` are the last response.
CrudInit ==
  /\ NoServer
  /\ usersDb = [users |-> <<[id |-> 1, name |-> "Ronak"], [id |-> 2, name |-> "Priya"]>>,
                status |-> 0,
                sent |-> <<>>]
  /\ appLog = Unused
  /\ fetch = Unused
  /\ stream = Unused
  /\ taskQueue = Unused
  /\ shop = Unused
  /\ authDb = Unused

notUsersDb == <<appLog, fetch, stream, taskQueue, shop, authDb>>

\* users.findIndex(u => u.id === id): the first index with the id, 0 for -1.
FindIndex(users, id) ==
  IF \E k \in 1..Len(users) : users[k].id = id
  THEN CHOOSE k \in 1..Len(users) :
         /\ users[k].id = id
         /\ \A j \in 1..(k - 1) : users[j].id # id
  ELSE 0

\* users.splice(index, 1)
Splice(users, index) ==
  SubSeq(users, 1, index - 1) \o SubSeq(users, index + 1, Len(users))

\* app.get('/api/users/:id', ..)
GetUser(id) ==
  /\ LET index == FindIndex(usersDb.users, id)
     IN  usersDb' = [usersDb EXCEPT
                       !.status = IF index = 0 THEN StatusNotFound ELSE StatusOK,
                       !.sent = IF index = 0 THEN <<>> ELSE <<usersDb.users[index]>>]
  /\ UNCHANGED <<serverVars, notUsersDb>>

\* app.post('/api/users', ..): id: users.length + 1
PostUser(name) ==
  /\ Len(usersDb.users) < MaxUsers
  /\ LET newUser == [id |-> Len(usersDb.users) + 1, name |-> name]
     IN  usersDb' = [usersDb EXCEPT !.users = Append(@, newUser),
                                    !.status = StatusCreated,
                                    !.sent = <<newUser>>]
  /\ UNCHANGED <<serverVars, notUsersDb>>

\* app.put('/api/users/:id', ..)
PutUser(id, name) ==
  /\ LET index == FindIndex(usersDb.users, id)
     IN  IF index = 0
         THEN usersDb' = [usersDb EXCEPT !.status = StatusNotFound, !.sent = <<>>]
         ELSE usersDb' = [usersDb EXCEPT
                            !.users[index].name = name,
                            !.status = StatusOK,
                            !.sent = <<[usersDb.users[index] EXCEPT !.name = name]>>]
  /\ UNCHANGED <<serverVars, notUsersDb>>

\* app.delete('/api/users/:id', ..)
DeleteUser(id) ==
  /\ LET index == FindIndex(usersDb.users, id)
     IN  IF index = 0
         THEN usersDb' = [usersDb EXCEPT !.status = StatusNotFound, !.sent = <<>>]
         ELSE usersDb' = [usersDb EXCEPT
                            !.users = Splice(@, index),
                            !.status = StatusOK,
                            !.sent = <<usersDb.users[index]>>]
  /\ UNCHANGED <<serverVars, notUsersDb>>

CrudNext ==
  \/ \E id \in UserIdParams : GetUser(id)
  \/ \E name \in Names : PostUser(name)
  \/ \E id \in UserIdParams, name \in Names : PutUser(id, name)
  \/ \E id \in UserIdParams : DeleteUser(id)

CrudSpec == CrudInit /\ [][CrudNext]_vars

\* ------------------------------------------------ the cart (part_000)
\* const products = [{ id: 1, .. stock: 10 }, { id: 2, .. stock: 50 },
\*                   { id: 3, .. stock: 30 }];
Products == <<[id |-> 1, stock |-> 10], [id |-> 2, stock |-> 50], [id |-> 3, stock |-> 30]>>

\* req.body.productId and req.body.quantity of the requests: ids with and
\* without a product, quantities within and above the stock of product 1.
ProductIdParams == 1..(Len(Products) + 1)
Quantities == {1, 10, 11}

\* products.find(p => p.id === productId): the index of the product, 0 if
\* there is none.
FindProduct(productId) ==
  IF \E k \in 1..Len(Products) : Products[k].id = productId
  THEN CHOOSE k \in 1..Len(Products) : Products[k].id = productId
  ELSE 0

\* req.session.cart.find(item => item.productId === productId): the index of
\* the first line for the product, 0 if there is none.
FindItem(cart, productId) ==
  IF \E k \in 1..Len(cart) : cart[k].productId = productId
  THEN CHOOSE k \in 1..Len(cart) :
         /\ cart[k].productId = productId
         /\ \A j \in 1..(k - 1) : cart[j].productId # productId
  ELSE 0

\* One session, after the middleware has set req.session.cart = [];
\* `adds` counts the requests to /cart/add, `status` is the last response.
CartInit ==
  /\ NoServer
  /\ shop = [cart |-> <<>>, status |-> 0, adds |-> 0]
  /\ appLog = Unused
  /\ fetch = Unused
  /\ stream = Unused
  /\ taskQueue = Unused
  /\ usersDb = Unused
  /\ authDb = Unused

notShop == <<appLog, fetch, stream, taskQueue, usersDb, authDb>>

\* if (existingItem) existingItem.quantity += quantity;
\* else req.session.cart.push({ productId, .., quantity });
AddLine(cart, productId, quantity) ==
  LET k == FindItem(cart, productId)
  IN  IF k # 0
      THEN [cart EXCEPT ![k].quantity = @ + quantity]
      ELSE Append(cart, [productId |-> productId, quantity |-> quantity])

\* app.post('/cart/add', ..)
CartAdd(productId, quantity) ==
  /\ shop.adds < MaxAdds
  /\ LET p == FindProduct(productId)
     IN  IF p = 0
         THEN shop' = [shop EXCEPT !.status = StatusNotFound, !.adds = @ + 1]
         ELSE IF quantity > Products[p].stock
         THEN shop' = [shop EXCEPT !.status = StatusBadRequest, !.adds = @ + 1]
         ELSE shop' = [shop EXCEPT !.cart = AddLine(@, productId, quantity),
                                   !.status = StatusOK,
                                   !.adds = @ + 1]
  /\ UNCHANGED <<serverVars, notShop>>

\* app.delete('/cart/:productId', ..)
CartRemove(productId) ==
  /\ shop' = [shop EXCEPT
                !.cart = SelectSeq(@, LAMBDA item : item.productId # productId),
                !.status = StatusOK]
  /\ UNCHANGED <<serverVars, notShop>>

\* app.delete('/cart', ..)
CartClear ==
  /\ shop' = [shop EXCEPT !.cart = <<>>, !.status = StatusOK]
  /\ UNCHANGED <<serverVars, notShop>>

CartNext ==
  \/ \E productId \in ProductIdParams, quantity \in Quantities : CartAdd(productId, quantity)
  \/ \E productId \in ProductIdParams : CartRemove(productId)
  \/ CartClear

CartSpec == CartInit /\ [][CartNext]_vars

\* ---------------------------------- token authentication (README, Example 2)
\* req.body.email and req.body.password of the requests.
Emails == {"ronak@example.com", "priya@example.com"}
Passwords == {"secret1", "secret2"}

\* The tokens that generateToken() returns are numbered in the order of
\* their generation: Math.random() and Date.now() make a token that was not
\* returned before.  A request presents one of them, generated already or
\* not, or none (NoToken).
NoToken == 0
TokenParams == 0..MaxTokens

\* const users = []; const sessions = new Map();  `issued` counts the calls
\* of generateToken, `loggedOut` is history: the tokens whose logout
\* succeeded, `last` is the last request and what became of it.
AuthInit ==
  /\ NoServer
  /\ authDb = [users |-> <<>>, sessions |-> {}, issued |-> 0, loggedOut |-> {},
               last |-> [route |-> "none", token |-> NoToken, status |-> 0,
                         reached |-> FALSE]]
  /\ appLog = Unused
  /\ fetch = Unused
  /\ stream = Unused
  /\ taskQueue = Unused
  /\ usersDb = Unused
  /\ shop = Unused

notAuthDb == <<appLog, fetch, stream, taskQueue, usersDb, shop>>

\* sessions.get(token): the user id mapped to the token, 0 for undefined.
SessionGet(sessions, token) ==
  IF \E s \in sessions : s.token = token
  THEN (CHOOSE s \in sessions : s.token = token).userId
  ELSE 0

\* sessions.set(token, userId)
SessionSet(sessions, token, userId) ==
  {s \in sessions : s.token # token} \cup {[token |-> token, userId |-> userId]}

\* Mutant: the logout leaves the session where it is.
SessionKept(sessions, token) == sessions

\* sessions.delete(token)
SessionDelete(sessions, token) == {s \in sessions : s.token # token}

\* authenticate: 401 without a token and with a token that sessions does not
\* map, next() otherwise.
Authenticated(token) ==
  /\ token # NoToken
  /\ SessionGet(authDb.sessions, token) # 0

Answer(route, token, status, reached) ==
  [route |-> route, token |-> token, status |-> status, reached |-> reached]

\* app.post('/auth/register', ..) with a valid body.
Register(email, password) ==
  /\ Len(authDb.users) < MaxAccounts
  /\ IF \E k \in 1..Len(authDb.users) : authDb.users[k].email = email
     THEN authDb' = [authDb EXCEPT
                       !.last = Answer("register", NoToken, StatusBadRequest, TRUE)]
     ELSE authDb' = [authDb EXCEPT
                       !.users = Append(@, [id |-> Len(authDb.users) + 1,
                                            email |-> email, password |-> password]),
                       !.last = Answer("register", NoToken, StatusCreated, TRUE)]
  /\ UNCHANGED <<serverVars, notAuthDb>>

\* app.post('/auth/login', ..) with a valid body.
Login(email, password) ==
  /\ authDb.issued < MaxTokens
  /\ IF \E k \in 1..Len(authDb.users) :
          authDb.users[k].email = email /\ authDb.users[k].password = password
     THEN LET user == authDb.users[CHOOSE k \in 1..Len(authDb.users) :
                                     /\ authDb.users[k].email = email
                                     /\ authDb.users[k].password = password]
              token == authDb.issued + 1
          IN  authDb' = [authDb EXCEPT
                           !.issued = token,
                           !.sessions = SessionSet(@, token, user.id),
                           !.last = Answer("login", NoToken, StatusOK, TRUE)]
     ELSE authDb' = [authDb EXCEPT
                       !.last = Answer("login", NoToken, StatusUnauthorized, TRUE)]
  /\ UNCHANGED <<serverVars, notAuthDb>>

\* app.get('/auth/profile', authenticate, ..)
Profile(token) ==
  /\ IF Authenticated(token)
     THEN authDb' = [authDb EXCEPT !.last = Answer("profile", token, StatusOK, TRUE)]
     ELSE authDb' = [authDb EXCEPT
                       !.last = Answer("profile", token, StatusUnauthorized, FALSE)]
  /\ UNCHANGED <<serverVars, notAuthDb>>

\* app.post('/auth/logout', authenticate, ..)
Logout(token) ==
  /\ IF Authenticated(token)
     THEN authDb' = [authDb EXCEPT
                       !.sessions = SessionDelete(@, token),
                       !.loggedOut = @ \cup {token},
                       !.last = Answer("logout", token, StatusOK, TRUE)]
     ELSE authDb' = [authDb EXCEPT
                       !.last = Answer("logout", token, StatusUnauthorized, FALSE)]
  /\ UNCHANGED <<serverVars, notAuthDb>>

AuthNext ==
  \/ \E email \in Emails, password \in Passwords : Register(email, password)
  \/ \E email \in Emails, password \in Passwords : Login(email, password)
  \/ \E token \in TokenParams : Profile(token)
  \/ \E token \in TokenParams : Logout(token)

AuthSpec == AuthInit /\ [][AuthNext]_vars

\* ------------------------------------------------------------- properties
VisitedIndices == {visited[n].i : n \in DOMAIN visited}

\* The entries a request would be offered while no error is pending.
MatchingEntries == {i \in DOMAIN entries : Matches(entries[i], [ctx EXCEPT !.errorState = NoError])}

\* C1: the entries a dispatch invokes are invoked in strictly increasing mount
\* index, and a walk that reaches the end of the list without any error has
\* invoked exactly the matching entries: the visit sequence is the mount
\* sequence filtered by matching, so it follows the order of the mount calls
\* and nothing else (not prefix length, method or specificity).
C1_VisitsInMountOrder ==
  /\ \A n, m \in DOMAIN visited : n < m => visited[n].i < visited[m].i
  /\ (result = "Unhandled" /\ errLog = <<>>) => VisitedIndices = MatchingEntries

\* A walk that ran to the end through at least two different entries.
C1_Witness ==
  /\ result = "Unhandled"
  /\ errLog = <<>>
  /\ Len(visited) >= 2
  /\ entries[visited[1].i] # entries[visited[2].i]
  /\ Len(entries[visited[1].i].prefix) < Len(entries[visited[2].i].prefix)
  /\ Len(entries) > Len(visited)

\* C2: once a handler has called next(err), every entry invoked later in
\* that dispatch is an error handler mounted after the signalling entry.
C2_NormalSkippedAfterError ==
  \A k \in DOMAIN errLog :
    errLog[k].cause = "signal" =>
      \A n \in DOMAIN visited :
        n > errLog[k].at =>
          /\ entries[visited[n].i].isErrorHandler
          /\ visited[n].i > errLog[k].by

\* An error was signalled and the walk went past a later normal entry whose
\* path and method match the request.
C2_Witness ==
  /\ pc = "boundary"
  /\ Len(errLog) > 0
  /\ errLog[1].cause = "signal"
  /\ \E j \in DOMAIN entries :
       /\ j > errLog[1].by
       /\ ~entries[j].isErrorHandler
       /\ MethodMatches(entries[j], ctx.method)
       /\ PathMatches(entries[j], ctx.path)
  /\ \E j \in DOMAIN entries : j > errLog[1].by /\ entries[j].isErrorHandler

\* C3: an error handler is invoked only when the error state was already set
\* at the moment of the invocation.
C3_ErrorHandlerOnlyInErrorState ==
  \A n \in DOMAIN visited :
    entries[visited[n].i].isErrorHandler => visited[n].err # NoError

\* A walk without any error went past an error handler whose prefix matches.
C3_Witness ==
  /\ result = "Unhandled"
  /\ errLog = <<>>
  /\ \E j \in DOMAIN entries :
       entries[j].isErrorHandler /\ PathMatches(entries[j], ctx.path)

\* C4: after a handler has finalised the response without calling next(), no
\* entry is invoked any more for that request: the finalising entry stays the
\* last one invoked.
C4_ShortCircuitHalts ==
  finalizedBy # 0 =>
    /\ Len(visited) > 0
    /\ visited[Len(visited)].i = finalizedBy
    /\ pc = "done"

\* A handler finalised although a later entry matches the request.
C4_Witness ==
  /\ finalizedBy # 0
  /\ \E j \in DOMAIN entries : j > finalizedBy /\ Matches(entries[j], ctx)

\* A handler that does not honour the contract (finalise, or call next()
\* exactly once) has been invoked for this request.
ContractBroken ==
  \E n \in DOMAIN visited : entries[visited[n].i].handler = "forgot"

C5_ResultInvariant ==
  /\ (result = "Finalized") = (finalizedBy # 0)
  /\ (result = "Finalized") => ctx.responseStarted
  /\ (result # "none") = (pc \in {"boundary", "done"})
  /\ (result = "Unhandled") =>
       /\ finalizedBy = 0
       /\ \A j \in idx..Len(entries) : ~Matches(entries[j], ctx)
  /\ (pc = "done" /\ finalizedBy = 0) => result = "Unhandled"

\* C5: a dispatch whose handlers all finalise or call next() once returns:
\* Finalized exactly when a handler finalised, Unhandled exactly when the walk
\* reached the end of the list (no entry from the resume point on matches)
\* without a finalisation.
C5_DispatchTerminates ==
  /\ []C5_ResultInvariant
  /\ (pc = "walking") ~> (result # "none" \/ ContractBroken)

\* A dispatch that returned Unhandled after every matching handler called
\* next() (three invocations).
C5_Witness ==
  /\ result = "Unhandled"
  /\ Len(visited) = MaxEntries
  /\ ~ContractBroken

\* C6: an Unhandled dispatch is answered by the boundary, with 404 when no
\* error is pending and with 500 when one is (no error handler was invoked
\* for it, unless the deadline cut one short); a Finalized dispatch is
\* answered by its handler and never by the boundary.
C6_BoundaryDefaults ==
  /\ (pc = "done" /\ result = "Unhandled") =>
       /\ answeredBy = "boundary"
       /\ ctx.errorState = NoError => ctx.status = StatusNotFound
       /\ ctx.errorState # NoError => ctx.status = StatusServerError
  /\ result = "Finalized" => answeredBy = "handler"
  /\ (result = "Unhandled" /\ ctx.errorState # NoError /\ ~expired) =>
       \A n \in DOMAIN visited : ~entries[visited[n].i].isErrorHandler

\* The boundary answered 500 for an error that was signalled by a handler and
\* that no error handler matched.
C6_Witness ==
  /\ pc = "done"
  /\ answeredBy = "boundary"
  /\ ctx.errorState = RouteNotFound
  /\ ctx.status = StatusServerError
  /\ \E j \in DOMAIN entries : entries[j].isErrorHandler

\* P is a prefix of path that ends at a segment boundary: path is P, or path
\* goes on with "/" right after P.
SegmentPrefix(P, path) ==
  \/ path = P
  \/ /\ Len(path) > Len(P)
     /\ SubSeq(path, 1, Len(P) + 1) = Append(P, Slash)

\* The entries of a walk that ran to the end without any error which were
\* not invoked although their role and method fit the request.
PassedOverForPath ==
  {j \in DOMAIN entries \ VisitedIndices :
     ~entries[j].isErrorHandler /\ MethodMatches(entries[j], ctx.method)}

\* C7 as stated: every entry, route or middleware, is invoked exactly for the
\* paths of which its pathPrefix is a segment-aligned prefix.
C7_Original ==
  /\ \A n \in DOMAIN visited :
       SegmentPrefix(entries[visited[n].i].prefix, ctx.path)
  /\ (result = "Unhandled" /\ errLog = <<>>) =>
       \A j \in PassedOverForPath : ~SegmentPrefix(entries[j].prefix, ctx.path)

\* C7 (amended): an entry mounted without a method (app.use) is invoked exactly
\* for the paths of which its prefix is a segment-aligned prefix ("/a" for
\* "/a" and "/a/a", not for "/aa"); an entry mounted with a method (app.get,
\* app.post) is invoked only for the path equal to its own.
C7_SegmentAwarePrefix ==
  /\ \A n \in DOMAIN visited :
       LET e == entries[visited[n].i]
       IN  IF e.method = AnyMethod
           THEN SegmentPrefix(e.prefix, ctx.path)
           ELSE ctx.path = e.prefix
  /\ (result = "Unhandled" /\ errLog = <<>>) =>
       \A j \in PassedOverForPath :
         IF entries[j].method = AnyMethod
         THEN ~SegmentPrefix(entries[j].prefix, ctx.path)
         ELSE ctx.path # entries[j].prefix

\* A request for "/a/a" went through the middleware mounted at "/a" and past
\* the GET route for "/a".
C7_Witness ==
  /\ result = "Unhandled"
  /\ errLog = <<>>
  /\ ctx.path = <<Slash, "a", Slash, "a">>
  /\ ctx.method = "GET"
  /\ \E n \in DOMAIN visited : entries[visited[n].i] = AuthEntry
  /\ \E j \in DOMAIN entries : entries[j] = RouteEntry

\* C8: an entry mounted with a method is invoked only for requests of that
\* method, and an entry mounted without one is never passed over because of
\* the request's method.
C8_MethodMatching ==
  /\ \A n \in DOMAIN visited :
       LET e == entries[visited[n].i]
       IN  e.method # AnyMethod => e.method = ctx.method
  /\ (result = "Unhandled" /\ errLog = <<>>) =>
       \A j \in DOMAIN entries :
         (/\ entries[j].method = AnyMethod
          /\ ~entries[j].isErrorHandler
          /\ PathMatches(entries[j], ctx.path)) => j \in VisitedIndices

\* A POST for "/a" went through a middleware and past the GET route for "/a".
C8_Witness ==
  /\ result = "Unhandled"
  /\ errLog = <<>>
  /\ ctx.method = "POST"
  /\ ctx.path = PathA
  /\ Len(visited) > 0
  /\ \E j \in DOMAIN entries : entries[j] = RouteEntry

\* The pending handler is one that neither sends the response nor calls next().
Hanging == pc = "inHandler" /\ entries[cur].handler = "forgot"

\* A handler of that kind has been invoked for this request.
ForgotInvoked ==
  \E n \in DOMAIN visited : entries[visited[n].i].handler = "forgot"

\* The only step that leaves a hanging dispatch: the expiry of a deadline that
\* was configured, which injects the timeout error.
C10_OnlyDeadlineEndsHang ==
  Hanging => /\ ctx.deadline
             /\ ~expired
             /\ expired'
             /\ ctx'.errorState = TimeoutError
             /\ result' = "none"

C10_ResolvedByTimeout ==
  (ForgotInvoked /\ result # "none") =>
     /\ ctx.deadline
     /\ expired
     /\ ctx.errorState = TimeoutError

\* Calling next() twice from one handler is not modelled: no program or note
\* of the repository does it or says what the framework then does.

\* C10: a handler that neither finalises nor calls next() leaves the dispatch
\* pending; nothing but the expiry of a configured deadline ends the wait
\* (with no deadline the request hangs forever), the dispatch then goes on
\* with the timeout error as its error state, and with a deadline it does
\* return in the end.
C10_HangUntilDeadline ==
  /\ [][C10_OnlyDeadlineEndsHang]_vars
  /\ []C10_ResolvedByTimeout
  /\ (Hanging /\ ctx.deadline) ~> (result # "none")

\* A dispatch that hung in such a handler and returned after the deadline.
C10_Witness ==
  /\ ForgotInvoked
  /\ result # "none"
  /\ expired
  /\ ctx.errorState = TimeoutError

\* ------------------------------------------------- deadline and completion
\* The positions in errLog at which the timeout error was injected.
TimeoutEntries == {k \in DOMAIN errLog : errLog[k].cause = "timeout"}

\* After the timeout error was injected only error handlers are invoked, each
\* of them with the timeout error, and none of them twice; a response a
\* handler produces afterwards is an error handler's.
C11_AfterExpiry ==
  /\ Cardinality(TimeoutEntries) <= 1
  /\ \A k \in TimeoutEntries :
       /\ expired
       /\ ctx.errorState = TimeoutError
       /\ \A n \in DOMAIN visited :
            n > errLog[k].at =>
              /\ entries[visited[n].i].isErrorHandler
              /\ visited[n].err = TimeoutError
              /\ \A m \in DOMAIN visited : m < n => visited[m].i < visited[n].i
       /\ finalizedBy # 0 =>
            /\ entries[finalizedBy].isErrorHandler
            /\ visited[Len(visited)].i = finalizedBy
            /\ Len(visited) > errLog[k].at

\* A deadline that expires while the dispatch is running injects the timeout
\* error, there and then.
C11_ExpiryInjects ==
  (~expired /\ expired' /\ result = "none") =>
     /\ errLog' = Append(errLog, [cause |-> "timeout", by |-> cur,
                                  at |-> Len(visited), err |-> TimeoutError])
     /\ ctx'.errorState = TimeoutError
     /\ visited' = visited

\* The completion of a handler that the deadline had cut short moves nothing:
\* the walk is where it was and has invoked what it had invoked.
C11_LateCompletionIgnored ==
  (abandoned # 0 /\ abandoned' = 0 /\ pc' # "idle") =>
     UNCHANGED <<pc, idx, cur, visited, errLog, result, finalizedBy>>

\* C11: when the deadline expires before the response is finalised, no normal
\* entry is invoked any more, a next() that arrives afterwards from the
\* handler that was pending does not resume the walk, and the timeout error
\* is injected exactly once and offered to each later error handler at most
\* once, whichever of the expiry and the handler's completion comes first.
C11_TimeoutRoutedOnce ==
  /\ []C11_AfterExpiry
  /\ [][C11_ExpiryInjects]_vars
  /\ [][C11_LateCompletionIgnored]_vars

\* The deadline cut a handler short that then called next(); the timeout error
\* went to an error handler mounted behind it, past a normal entry that fits
\* the request.
C11_Witness ==
  /\ TimeoutEntries # {}
  /\ finalizedBy # 0
  /\ \E r \in DOMAIN rejected : rejected[r].do = "next"
  /\ \E j \in DOMAIN entries :
       /\ j > errLog[1].by
       /\ j < finalizedBy
       /\ ~entries[j].isErrorHandler
       /\ MethodMatches(entries[j], ctx.method)
       /\ PathMatches(entries[j], ctx.path)

\* Whatever happens to a request after a handler has finalised its response,
\* short of the request being dropped, leaves the request as it was.
C12_CompletedUntouched ==
  (result = "Finalized" /\ pc' # "idle") =>
     /\ ctx' = ctx
     /\ errLog' = errLog
     /\ visited' = visited
     /\ UNCHANGED <<pc, result, finalizedBy, answeredBy>>

\* C12: a deadline that expires after a handler has finalised the response
\* injects no timeout error, has no error handler invoked and leaves the
\* response as it was produced.
C12_NoCancelAfterCompletion == [][C12_CompletedUntouched]_vars

\* The deadline of a request expired after a normal handler had finalised
\* its response, with an error handler mounted behind that handler.
C12_Witness ==
  /\ result = "Finalized"
  /\ ctx.deadline
  /\ expired
  /\ TimeoutEntries = {}
  /\ ctx.errorState = NoError
  /\ ctx.status \in {StatusOK, StatusForbidden}
  /\ \E j \in DOMAIN entries :
       j > finalizedBy /\ entries[j].isErrorHandler /\ PathMatches(entries[j], ctx.path)

\* ------------------------------------------------------------------ routers
\* The positions in the application's list of the routers this request was
\* handed to.
RoutersVisited == {i \in VisitedIndices : IsRouter(entries[i].handler)}

\* C13: a router that comes to the end of its own list without a response
\* does not end the request: the application's walk goes on with the entries
\* mounted behind the router, so that only the end of the application's own
\* list makes the dispatch Unhandled and has the default response sent.  With
\* userRoutes under "/a" and POST "/a/b" mounted behind it, POST /a/b goes
\* through the router, which has no route for it, and is answered by the
\* route behind.
C13_RouterFallsThrough ==
  /\ result = "Unhandled" =>
       /\ pc \in {"boundary", "done"}
       /\ sub = 0
       /\ \A j \in idx..Len(entries) : ~Matches(entries[j], ctx)
       /\ \A r \in RoutersVisited : r < idx
       /\ errLog = <<>> =>
            \A r \in RoutersVisited :
              \A j \in (r + 1)..Len(entries) :
                Matches(entries[j], ctx) => j \in VisitedIndices
  /\ answeredBy = "boundary" => (result = "Unhandled" /\ pc = "done")
  /\ (/\ entries = GhostApp
      /\ ctx.path = PathAB
      /\ ctx.method = "POST"
      /\ pc = "done") =>
       /\ result = "Finalized"
       /\ finalizedBy = 2
       /\ ctx.status = StatusOK
       /\ answeredBy = "handler"

\* POST /a/b went into userRoutes, whose middleware ran and none of whose
\* routes fits, and was answered by the route mounted behind the router.
C13_Witness ==
  /\ entries = GhostApp
  /\ ctx.path = PathAB
  /\ ctx.method = "POST"
  /\ Len(subVisited) = 1
  /\ subVisited[1].at = 1
  /\ visited = << [i |-> 1, err |-> NoError], [i |-> 2, err |-> NoError] >>
  /\ finalizedBy = 2
  /\ ctx.status = StatusOK

\* The inner entries that the router at position r of the application's list
\* invoked for this request.
SubVisitedAt(r) == {subVisited[n].i : n \in {m \in DOMAIN subVisited : subVisited[m].at = r}}

\* path is the path that the route path q stands for in a router mounted
\* under P: P itself for "/", P followed by q otherwise, P followed by one
\* more segment for a route parameter.
FitsUnderMount(P, q, path) ==
  IF q = ParamPattern
  THEN /\ Len(path) >= Len(P) + 2
       /\ SubSeq(path, 1, Len(P) + 1) = Append(P, Slash)
       /\ \A i \in (Len(P) + 2)..Len(path) : path[i] # Slash
  ELSE path = (IF q = Root THEN P ELSE P \o q)

\* C14: the entries of a router mounted under P are matched against the rest
\* of the request path behind P: a route of the router is invoked only for
\* the path that is P followed by the route's own path (P itself for "/", P
\* and one more segment for "/:id"), never for a request path that equals the
\* route's path as such, and a request for such a path that gets as far as
\* the route is answered by it.
C14_ResidualPath ==
  /\ \A n \in DOMAIN subVisited :
       LET r == subVisited[n].at
           e == RouterEntries(entries[r].handler)[subVisited[n].i]
       IN  /\ PrefixMatches(entries[r].prefix, ctx.path)
           /\ e.method # AnyMethod =>
                FitsUnderMount(entries[r].prefix, e.prefix, ctx.path)
  /\ pc = "done" =>
       \A r \in RoutersVisited :
         LET list == RouterEntries(entries[r].handler)
         IN  \A j \in DOMAIN list :
               (/\ list[j].method = ctx.method
                /\ FitsUnderMount(entries[r].prefix, list[j].prefix, ctx.path))
               => \/ j \in SubVisitedAt(r)
                  \/ /\ finalizedBy = r
                     /\ \E i \in SubVisitedAt(r) : i < j
  /\ (entries = UsersApp /\ ctx.method = "GET" /\ pc = "done") =>
       /\ ctx.path = PathA => (finalizedBy = 2 /\ 2 \in SubVisitedAt(2))
       /\ ctx.path = PathAB => (finalizedBy = 2 /\ 3 \in SubVisitedAt(2))

\* GET /a/b was answered by the '/:id' route of userRoutes, mounted under
\* "/a", after the router's own middleware.
C14_Witness ==
  /\ entries = UsersApp
  /\ ctx.path = PathAB
  /\ ctx.method = "GET"
  /\ finalizedBy = 2
  /\ subVisited = << [at |-> 2, i |-> 1], [at |-> 2, i |-> 3] >>
  /\ ctx.status = StatusOK

\* ------------------------------------------------------------------- errors
\* The positions in errLog at which a handler handed an error on with
\* next(err).
SignalEntries == {k \in DOMAIN errLog : errLog[k].cause = "signal"}

\* C15: after a handler has called next(err), the error handlers invoked for
\* the request are handed that very error, and the response that the error
\* handler sends carries the status declared on the error (500 when the error
\* declares none).  GET /a against [json, GET /a -> next(error 500), 404
\* handler, error handler] is answered 500 by the error handler, and a
\* request for another path is answered 404, the status of the 404 handler's
\* error.
C15_ErrorHandlerReceivesErr ==
  /\ \A k \in SignalEntries :
       /\ ctx.errorState = errLog[k].err
       /\ \A n \in DOMAIN visited :
            n > errLog[k].at =>
              /\ entries[visited[n].i].isErrorHandler
              /\ visited[n].err = errLog[k].err
       /\ (finalizedBy # 0 /\ entries[finalizedBy].isErrorHandler) =>
            ctx.status = IF errLog[k].err.status # 0
                         THEN errLog[k].err.status
                         ELSE StatusServerError
  /\ (entries = ErrorApp /\ pc = "done") =>
       /\ finalizedBy = 4
       /\ Len(errLog) = 1
       /\ (ctx.method = "GET" /\ ctx.path = PathA) =>
            (errLog[1].by = 2 /\ errLog[1].err = RouteFailed /\ ctx.status = StatusServerError)
       /\ ~(ctx.method = "GET" /\ ctx.path = PathA) =>
            (errLog[1].by = 3 /\ errLog[1].err = RouteNotFound /\ ctx.status = StatusNotFound)

\* The '/error' route called next(error), the 404 handler behind it was
\* passed over, and the error handler answered with the error's status.
C15_Witness ==
  /\ entries = ErrorApp
  /\ ctx.path = PathA
  /\ ctx.method = "GET"
  /\ errLog = << [cause |-> "signal", by |-> 2, at |-> 2, err |-> RouteFailed] >>
  /\ visited = << [i |-> 1, err |-> NoError], [i |-> 2, err |-> NoError],
                  [i |-> 4, err |-> RouteFailed] >>
  /\ finalizedBy = 4
  /\ ctx.status = StatusServerError

\* C16: an error that the entry at mount index i hands on with next(err) is
\* seen only by error handlers mounted behind i: the walk resumes behind i
\* and never goes back, so an error handler mounted before the signalling
\* entry is not invoked for the request at all.
C16_EarlierErrorHandlerNeverSees ==
  \A k \in SignalEntries :
    /\ idx > errLog[k].by
    /\ cur # 0 => cur >= errLog[k].by
    /\ \A j \in DOMAIN entries :
         (entries[j].isErrorHandler /\ j < errLog[k].by) => j \notin VisitedIndices

\* An error was signalled with the only error handlers, one of which fits
\* the request, mounted before the signalling entry: the error reached no
\* handler and the default 500 was sent.
C16_Witness ==
  /\ pc = "done"
  /\ answeredBy = "boundary"
  /\ ctx.status = StatusServerError
  /\ SignalEntries # {}
  /\ ~expired
  /\ \E j \in DOMAIN entries :
       /\ j < errLog[1].by
       /\ entries[j].isErrorHandler
       /\ PathMatches(entries[j], ctx.path)
  /\ \A j \in DOMAIN entries : entries[j].isErrorHandler => j < errLog[1].by

\* ---------------------------------------------------------------- scenarios
\* The request is a GET for the route below "/a" and the program is one of
\* the two with logger, body parser, authentication under "/a" and that route.
ScenarioRequest ==
  /\ entries \in {ScenarioApp, ScenarioAppAuthenticate}
  /\ pc \notin {"idle"}
  /\ ctx.method = "GET"
  /\ ctx.path = PathAB

AllFourInOrder ==
  visited = << [i |-> 1, err |-> NoError], [i |-> 2, err |-> NoError],
               [i |-> 3, err |-> NoError], [i |-> 4, err |-> NoError] >>

\* C17 as stated: with the valid header all four entries are invoked in
\* order and the route answers 200; without the header the authentication
\* entry answers 403 and the route is not invoked.
C17_Original ==
  ScenarioRequest =>
    /\ 4 \in VisitedIndices => ctx.token = "valid"
    /\ pc = "done" =>
         /\ ctx.token = "valid" =>
              (AllFourInOrder /\ finalizedBy = 4 /\ ctx.status = StatusOK)
         /\ ctx.token = "none" =>
              (finalizedBy = 3 /\ ctx.status = StatusForbidden /\ 4 \notin VisitedIndices)

\* C17 (amended): with the valid header all four entries are invoked in
\* order and the route answers 200; without the header the authentication
\* entry ends the request and the route is not invoked: the middleware of
\* part_008 answers 403, the authenticate middleware that part_000 mounts
\* under '/api' answers 401 (and 403 to a wrong token).
C17_EndToEnd ==
  ScenarioRequest =>
    /\ 4 \in VisitedIndices => ctx.token = "valid"
    /\ pc = "done" =>
         /\ ctx.token = "valid" =>
              (AllFourInOrder /\ finalizedBy = 4 /\ ctx.status = StatusOK)
         /\ ctx.token # "valid" =>
              /\ finalizedBy = 3
              /\ Len(visited) = 3
              /\ 4 \notin VisitedIndices
              /\ ctx.status = IF entries = ScenarioAppAuthenticate /\ ctx.token = "none"
                              THEN StatusUnauthorized
                              ELSE StatusForbidden

\* The request without the header was answered 403 by the authentication
\* middleware of part_008, third in the list, behind logger and body parser.
C17_Witness ==
  /\ entries = ScenarioApp
  /\ ctx.method = "GET"
  /\ ctx.path = PathAB
  /\ ctx.token = "none"
  /\ pc = "done"
  /\ finalizedBy = 3
  /\ ctx.status = StatusForbidden
  /\ Len(visited) = 3

\* ------------------------------------------------------- errors stay inside
\* A request that is over has a result; the failure of a handler (thrown,
\* rejected or handed on with next(err)) is on the request as its error state;
\* and an entry invoked while an error is pending is an error handler of the
\* application, never an entry of a router.
C19_Safety ==
  /\ pc = "done" => result \in {"Finalized", "Unhandled"}
  /\ (errLog = <<>>) = (ctx.errorState = NoError)
  /\ errLog # <<>> => ctx.errorState = errLog[Len(errLog)].err
  /\ \A n \in DOMAIN visited :
       visited[n].err # NoError => entries[visited[n].i].isErrorHandler
  /\ pc \in {"subWalking", "subInHandler"} => ctx.errorState = NoError
  /\ (entries = ThrowApp /\ ctx.method = "GET" /\ ctx.path = PathA /\ pc = "done") =>
       /\ errLog = << [cause |-> "throw", by |-> 1, at |-> 1, err |-> Thrown] >>
       /\ finalizedBy = 3
       /\ ctx.status = StatusServerError

\* C19 as stated: no error leaves the dispatch as an exception, and every
\* request, one whose handler breaks the contract included, comes to its
\* end, Finalized or Unhandled.
C19_Original ==
  /\ []C19_Safety
  /\ (pc = "walking") ~> (result # "none")

\* C19 (amended): no error leaves the dispatch as an exception: what a
\* handler throws, the rejection of a wrapped asynchronous handler and an
\* error handed on with next(err) are carried in the error state and seen
\* only by error handlers, and a dispatch that ends ends Finalized or
\* Unhandled.  A dispatch ends unless it is left pending by a handler that
\* neither responds nor calls next().
C19_ErrorsStayInside ==
  /\ []C19_Safety
  /\ (pc = "walking") ~> (result # "none" \/ Hanging)

\* The '/error' route threw, and the error handler answered 500.
C19_Witness ==
  /\ entries = ThrowApp
  /\ ctx.path = PathA
  /\ ctx.method = "GET"
  /\ Len(errLog) = 1
  /\ errLog[1].cause = "throw"
  /\ visited = << [i |-> 1, err |-> NoError], [i |-> 3, err |-> Thrown] >>
  /\ finalizedBy = 3
  /\ ctx.status = StatusServerError

\* ------------------------------------------------------------ the response
\* The response is started exactly when somebody has answered, and a request
\* that a handler has finalised is over.
C20_Started ==
  /\ ctx.responseStarted = (answeredBy # "none")
  /\ finalizedBy # 0 => (ctx.responseStarted /\ answeredBy = "handler")
  /\ ctx.responseStarted => pc = "done"

\* As long as the request is there, a response that was started stays
\* started, keeps its status and its author.
C20_KeptAsProduced ==
  (ctx.responseStarted /\ pc' # "idle") =>
     /\ ctx'.responseStarted
     /\ ctx'.status = ctx.status
     /\ finalizedBy' = finalizedBy
     /\ answeredBy' = answeredBy

C18_ReadsOwnWrites ==
  \A r \in DOMAIN reqs :
    /\ reqs[r].attributes = reqs[r].wrote
    /\ (reqs[r].pc = "done" /\ reqs[r].path = Root /\ reqs[r].method = "GET") =>
         /\ reqs[r].body.requestTime = reqs[r].wrote["requestTime"]
         /\ reqs[r].body.isAuthenticated = reqs[r].wrote["isAuthenticated"]
         /\ reqs[r].body.requestTime # Undefined
         /\ reqs[r].body.isAuthenticated # Undefined

\* A step leaves the fields of every request whose walk it does not move as
\* they are.
C18_OthersUntouched ==
  \A r \in DOMAIN reqs :
    (r \in DOMAIN reqs' /\ reqs'[r].idx = reqs[r].idx /\ reqs'[r].pc = reqs[r].pc) =>
       reqs'[r].attributes = reqs[r].attributes

\* C18: what a handler stores on the req object is there for the handlers
\* invoked later for the same request and for them only: in every
\* interleaving of the handlers of two requests a write for one request
\* changes nothing of what the handlers of the other read.
C18_AttributesPerRequest ==
  /\ []C18_ReadsOwnWrites
  /\ [][C18_OthersUntouched]_vars

\* Two requests were served side by side, their time stamps differ, and each
\* route answered with the stamp of its own request; the second stamp was
\* stored before the first request's route read.
C18_Witness ==
  /\ \A r \in Requests : reqs[r].pc = "done" /\ reqs[r].path = Root /\ reqs[r].method = "GET"
  /\ reqs[1].body.requestTime = 1
  /\ reqs[2].body.requestTime = 2
  /\ requestCount = MaxRequests

\* ------------------------------------------------ the handler for the rest
\* A handler mounted without path and method that answers and never calls
\* next().
IsCatchAll(e) ==
  /\ e.prefix = NoPath
  /\ e.method = AnyMethod
  /\ ~e.isErrorHandler
  /\ e.handler \in {"send404", "pageNotFound"}

CatchAlls == {k \in 1..Len(entries) : IsCatchAll(entries[k])}

\* Every request that is over was answered, by one handler or by the
\* boundary, and no entry mounted behind the catch-all was invoked unless it
\* is an error handler.
C21_OneResponse ==
  \A k \in CatchAlls :
    /\ pc = "done" =>
         /\ answeredBy # "none"
         /\ ctx.responseStarted
         /\ (answeredBy = "handler") = (finalizedBy # 0)
    /\ \A j \in VisitedIndices : j > k => entries[j].isErrorHandler

\* As stated: the catch-all is invoked exactly for the requests that no
\* entry mounted before it answered.
C21_Original ==
  /\ C21_OneResponse
  /\ \A k \in CatchAlls :
       pc = "done" => ((k \in VisitedIndices) = (finalizedBy \notin 1..(k - 1)))

\* C21: with the catch-all mounted behind the routes, it is invoked exactly
\* for the requests that no entry before it answered and that carry no
\* error; a request whose route threw or called next(err) passes the
\* catch-all by and is answered by the error handler.  Every request gets
\* exactly one response, and a route mounted behind the catch-all is never
\* invoked.
C21_CatchAll ==
  /\ C21_OneResponse
  /\ \A k \in CatchAlls :
       /\ pc = "done" =>
            ((k \in VisitedIndices) = (finalizedBy \notin 1..(k - 1) /\ errLog = <<>>))
       /\ k \in VisitedIndices /\ pc = "done" => finalizedBy = k

\* routing.js served GET /a/b, for which it has no route: only the handler
\* for the rest was invoked and it answered; and the route behind the 404
\* handler of LateRouteApp exists.
C21_Witness ==
  /\ entries = RoutingApp
  /\ pc = "done"
  /\ ctx.path = PathAB
  /\ VisitedIndices = {4}
  /\ finalizedBy = 4
  /\ answeredBy = "handler"

\* GET /a on LateRouteApp: the route for /a is mounted behind the 404
\* handler, which answered.
C21_LateRouteWitness ==
  /\ entries = LateRouteApp
  /\ pc = "done"
  /\ ctx.path = PathA
  /\ ctx.method = "GET"
  /\ finalizedBy = 2
  /\ ctx.status = StatusNotFound

\* ---------------------------------------------------------- the logger script
\* C22: once the three appends are done, app.log holds the three entries in
\* the order of the calls, as the notes show under "Output in app.log".
C22_CallOrder ==
  (\A i \in 1..Len(Messages) : appLog.stage[i] = "done") => appLog.file = Messages

\* What does hold: every message is in the file exactly once.
C22_EachOnce ==
  (\A i \in 1..Len(Messages) : appLog.stage[i] = "done") =>
     /\ Len(appLog.file) = Len(Messages)
     /\ \A i \in 1..Len(Messages) : \E k \in 1..Len(appLog.file) : appLog.file[k] = Messages[i]

\* ------------------------------------------------------------- fetchUser
\* The invocations of the callback that belong to call c.
CallbacksOf(c) == {k \in 1..Len(fetch.callbacks) : fetch.callbacks[k].call = c}

TimersOf(c) == {k \in 1..Len(fetch.timers) : fetch.timers[k].call = c}

\* Call c has returned.
Returned(c) == c < Len(fetch.calls) \/ fetch.pc = "idle"

\* C23: fetchUser invokes its callback exactly once for every userId.  With
\* a falsy userId it is callback(Error, null), made before fetchUser returns,
\* no timer is set and the success call is never made; with a truthy userId
\* it is callback(null, user) for that userId, made by the timer after
\* fetchUser has returned, and the error call is never made.
C23_CallbackOnce ==
  \A c \in 1..Len(fetch.calls) :
    /\ Cardinality(CallbacksOf(c)) + Cardinality(TimersOf(c)) <= 1
    /\ Returned(c) => Cardinality(CallbacksOf(c)) + Cardinality(TimersOf(c)) = 1
    /\ Falsy(fetch.calls[c]) =>
         /\ TimersOf(c) = {}
         /\ \A k \in CallbacksOf(c) :
              /\ fetch.callbacks[k].err
              /\ fetch.callbacks[k].inside
              /\ fetch.callbacks[k].user = 0
         /\ Returned(c) => CallbacksOf(c) # {}
    /\ ~Falsy(fetch.calls[c]) =>
         \A k \in CallbacksOf(c) :
           /\ ~fetch.callbacks[k].err
           /\ ~fetch.callbacks[k].inside
           /\ fetch.callbacks[k].user = fetch.calls[c]
           /\ Returned(c)

\* fetchUser was called without and with a user id: the first call was
\* answered with the error before it returned, the second by its timer.
C23_Witness ==
  /\ fetch.calls = <<0, 101>>
  /\ fetch.pc = "idle"
  /\ fetch.timers = <<>>
  /\ Len(fetch.callbacks) = 2
  /\ fetch.callbacks[1] = [call |-> 1, err |-> TRUE, user |-> 0, inside |-> TRUE]
  /\ fetch.callbacks[2] = [call |-> 2, err |-> FALSE, user |-> 101, inside |-> FALSE]

\* --------------------------------------------------- the list of entries
\* A step changes the list only during setup, and then by putting one entry
\* behind the ones that are there, which keep their place and content.
C24_AppendOnly ==
  /\ phase = "serving" => (entries' = entries /\ phase' = "serving")
  /\ entries' # entries =>
       /\ Len(entries') = Len(entries) + 1
       /\ SubSeq(entries', 1, Len(entries)) = entries

\* C24: dispatch never changes the list of entries.  Mounting only appends,
\* and with the server serving, whatever the number of requests in progress
\* and however their handlers interleave, the list (prefix, method and role
\* of every entry) stays as it was when app.listen was called.
C24_EntriesReadOnly ==
  /\ [][C24_AppendOnly]_vars
  /\ [](phase = "serving" => entries = ConcApp)

\* Two requests were served side by side, the second stamped first, and the
\* list is the one the script mounted.
C24_Witness ==
  /\ phase = "serving"
  /\ entries = ConcApp
  /\ \A r \in Requests : reqs[r].pc = "done" /\ reqs[r].path = Root /\ reqs[r].method = "GET"
  /\ reqs[2].body.requestTime = 1
  /\ reqs[1].body.requestTime = 2

\* ------------------------------------------------ resuming a suspended walk
\* No entry is invoked twice for one request: the entries invoked are in
\* strictly increasing mount index, the pending entry is the last of them,
\* and the walk looks only behind them.
C25_NoRevisit ==
  \A r \in DOMAIN reqs :
    LET v == reqs[r].visited
    IN  /\ \A a, b \in 1..Len(v) : a < b => v[a] < v[b]
        /\ reqs[r].pc = "inHandler" => (v # <<>> /\ reqs[r].cur = v[Len(v)])
        /\ reqs[r].pc = "walking" => \A a \in 1..Len(v) : v[a] < reqs[r].idx

\* A handler that calls next() has the walk of its request resume right
\* behind its entry, and a step for one request leaves the walk of every
\* other request where it is.
C25_ResumeBehind ==
  \A r \in DOMAIN reqs :
    /\ (reqs[r].pc = "inHandler" /\ reqs'[r].pc = "walking") =>
          reqs'[r].idx = reqs[r].cur + 1
    /\ (\E s \in DOMAIN reqs : s # r /\ reqs'[s] # reqs[s]) =>
          /\ reqs'[r].idx = reqs[r].idx
          /\ reqs'[r].cur = reqs[r].cur
          /\ reqs'[r].visited = reqs[r].visited

\* C25: within one dispatch every entry is invoked at most once.  When a
\* handler that was pending calls next(), the walk resumes at the entry right
\* behind it and invokes neither that entry nor an earlier one again,
\* however the walks of other requests interleave with it.
C25_InvokedAtMostOnce ==
  /\ []C25_NoRevisit
  /\ [][C25_ResumeBehind]_vars

\* Request 1 is in its third handler after resuming twice, while the first
\* handler of request 2 has been pending all along.
C25_Witness ==
  /\ reqs[1].pc = "inHandler"
  /\ reqs[1].visited = <<1, 2, 3>>
  /\ reqs[2].pc = "inHandler"
  /\ reqs[2].visited = <<1>>

\* ------------------------------------------------------- the write stream
IsPrefixOf(s, t) == Len(s) <= Len(t) /\ SubSeq(t, 1, Len(s)) = s

\* The file holds the chunks in the order of the write calls, the listener
\* has been called at most once, and when it has, end() had been called and
\* every chunk was in the file; the emission of 'finish' found the listener.
C26_InOrderThenFinish ==
  /\ IsPrefixOf(stream.file, stream.accepted)
  /\ stream.accepted = stream.file \o stream.buffer
  /\ stream.finishCalls <= 1
  /\ stream.finishCalls = 1 =>
       /\ stream.ending
       /\ stream.finished
       /\ stream.file = stream.accepted
  /\ stream.finished => stream.finishCalls = 1

\* After end() no chunk is taken any more, and after 'finish' nothing is
\* written to the file.
C26_NothingAfterEnd ==
  /\ stream.ending => stream'.accepted = stream.accepted
  /\ stream.finished => (stream'.file = stream.file /\ stream'.finishCalls = stream.finishCalls)

\* C26: in the write-stream script the chunks reach the file in the order of
\* the write calls ('Hello ' before 'World'), no chunk is written after
\* end(), and the 'finish' listener, registered only after end() was called,
\* is called exactly once, and only after all chunks have been flushed.
C26_WriteStream ==
  /\ []C26_InOrderThenFinish
  /\ [][C26_NothingAfterEnd]_vars

\* The script of writeable.js has run and its listener was called.
C26_Witness ==
  /\ stream.accepted = <<"Hello ", "World">>
  /\ stream.file = <<"Hello ", "World">>
  /\ stream.finishCalls = 1
  /\ stream.pc = "over"

\* ----------------------------------------------------------- the TaskQueue
\* The positions in the history at which an event of the name was emitted,
\* and the tasks of these events, in order.
PositionsOf(name) ==
  {k \in 1..Len(taskQueue.events) : taskQueue.events[k].name = name}

TasksOf(name) ==
  LET sel == SelectSeq(taskQueue.events, LAMBDA e : e.name = name)
  IN  [k \in 1..Len(sel) |-> sel[k].task]

\* The position of the n-th event of the name.
NthPosition(name, n) ==
  CHOOSE k \in PositionsOf(name) :
    Cardinality({j \in PositionsOf(name) : j <= k}) = n

\* taskProcessing is emitted for the tasks in the order of their addition,
\* once for each addition at most, and what is left in the queue are the
\* additions not yet processed; the n-th taskCompleted is for the task of the
\* n-th taskProcessing and comes after it.
C27_FifoOnce ==
  /\ IsPrefixOf(TasksOf("taskProcessing"), taskQueue.added)
  /\ taskQueue.added = TasksOf("taskProcessing") \o taskQueue.tasks
  /\ TasksOf("taskAdded") = taskQueue.added
  /\ TasksOf("taskProcessing") = TasksOf("taskCompleted") \o taskQueue.timers
  /\ \A n \in 1..Len(TasksOf("taskCompleted")) :
       NthPosition("taskProcessing", n) < NthPosition("taskCompleted", n)
  /\ \A n \in 1..Len(TasksOf("taskProcessing")) :
       NthPosition("taskAdded", n) < NthPosition("taskProcessing", n)

\* A call of processNext that finds the queue empty emits nothing, sets no
\* timer and leaves the queue empty.
C27_EmptyProcessNext ==
  (taskQueue'.processCalls # taskQueue.processCalls /\ taskQueue.tasks = <<>>) =>
     /\ taskQueue'.events = taskQueue.events
     /\ taskQueue'.tasks = <<>>
     /\ taskQueue'.timers = taskQueue.timers

\* C27: for any sequence of addTask and processNext calls the tasks emit
\* taskProcessing in the order in which they were added, each at most once;
\* each taskCompleted follows the taskProcessing of the same task; and
\* processNext on an empty queue emits no event and leaves the queue as it is.
C27_TaskQueueFifo ==
  /\ []C27_FifoOnce
  /\ [][C27_EmptyProcessNext]_vars

\* The example's run followed by one more processNext: both tasks were
\* processed and completed in the order of their addition, and the third
\* call found the queue empty.
C27_Witness ==
  /\ taskQueue.added = <<"Send Email", "Generate Report">>
  /\ TasksOf("taskProcessing") = <<"Send Email", "Generate Report">>
  /\ TasksOf("taskCompleted") = <<"Send Email", "Generate Report">>
  /\ taskQueue.processCalls = 3
  /\ taskQueue.tasks = <<>>

\* ------------------------------------------------------ the users array
\* C28: after any sequence of POST /api/users and DELETE /api/users/:id no
\* two elements of users have the same id, so that GET, PUT and DELETE by id
\* address a single user.
C28_UniqueIds ==
  \A i, j \in 1..Len(usersDb.users) :
    usersDb.users[i].id = usersDb.users[j].id => i = j

\* ------------------------------------------------------------------ the cart
\* C29: after any sequence of POST /cart/add requests in one session the
\* cart holds at most one line per productId, and the quantity accumulated
\* in that line never exceeds the stock of the product.
C29_WithinStock ==
  /\ \A i, j \in 1..Len(shop.cart) :
       shop.cart[i].productId = shop.cart[j].productId => i = j
  /\ \A i \in 1..Len(shop.cart) :
       /\ FindProduct(shop.cart[i].productId) # 0
       /\ shop.cart[i].quantity <= Products[FindProduct(shop.cart[i].productId)].stock

\* The parts of the statement that do hold: one line per product, and an add
\* answered with 'Product not found' or 'Insufficient stock' leaves the cart
\* as it was.
C29_OneLinePerProduct ==
  \A i, j \in 1..Len(shop.cart) :
    shop.cart[i].productId = shop.cart[j].productId => i = j

C29_RejectedAddKeepsCart ==
  (shop'.adds # shop.adds /\ shop'.status \in {StatusNotFound, StatusBadRequest}) =>
     shop'.cart = shop.cart

C29_WhatHolds ==
  /\ []C29_OneLinePerProduct
  /\ [][C29_RejectedAddKeepsCart]_vars

\* ------------------------------------------------------ token authentication
GuardedRoutes == {"profile", "logout"}

\* A token whose logout succeeded is not mapped by sessions.
C30_LoggedOutUnmapped ==
  \A s \in authDb.sessions : s.token \notin authDb.loggedOut

\* A request to a guarded route reaches the route's handler only with a
\* token that sessions maps when the request arrives; with a token that was
\* logged out before, it is answered 401 by authenticate.
C30_GuardedStep ==
  (authDb' # authDb /\ authDb'.last.route \in GuardedRoutes) =>
     /\ authDb'.last.reached =>
          /\ authDb'.last.token # NoToken
          /\ SessionGet(authDb.sessions, authDb'.last.token) # 0
          /\ authDb'.last.status = StatusOK
     /\ authDb'.last.token \in authDb.loggedOut =>
          /\ ~authDb'.last.reached
          /\ authDb'.last.status = StatusUnauthorized

\* C30: a handler guarded by authenticate runs only when the token presented
\* is mapped in sessions at that moment.  After POST /auth/logout with token
\* t has succeeded, every later request that presents t to a guarded route
\* gets 401 and does not reach the route's handler, whatever logins and
\* logouts of other users come in between.
C30_LogoutRevokes ==
  /\ []C30_LoggedOutUnmapped
  /\ [][C30_GuardedStep]_vars

\* Two users are logged in; the first has logged out, the second has logged
\* in after that, and the first user's token was then turned away from the
\* profile.
C30_Witness ==
  /\ authDb.loggedOut = {1}
  /\ authDb.issued = 2
  /\ SessionGet(authDb.sessions, 2) = 2
  /\ authDb.last = Answer("profile", 1, StatusUnauthorized, FALSE)

====
